---- MODULE Spec2Model ----
(***************************************************************************)
(* Model of the client-balance service: Service<C, E> over the             *)
(* ClientBalanceRepository and BalanceExporter ports, with the             *)
(* InMemoryRepository as the ledger.  Every service method is a sequence   *)
(* of awaited port calls; each port call is one step, and concurrent       *)
(* requests (Procs) interleave between steps.                              *)
(***************************************************************************)
EXTENDS Integers, Sequences, FiniteSets, TLC

\* ------------------------------------------------------------------ bounds
\* total number of service calls started in one run
MaxOps == 4
\* number of client ids the counter may hand out in one run
MaxClients == 2

\* concurrently served requests
Procs == {"p1", "p2"}
\* raw decimal amounts offered to the transaction request constructors
RawAmounts == {-1, 0, 1}
\* client ids a request may name (existing or not)
Ids == 0 .. (MaxClients - 1)

VARIABLES
    clients,          \* InMemoryRepository.clients : ClientId -> Client
    client_balances,  \* InMemoryRepository.client_balances : ClientId -> Balance
    id_counter,       \* InMemoryRepository.id_counter
    balances_lock,    \* holder of the client_balances mutex, or "free"
    pc,               \* position of each request inside its service method
    local,            \* locals of each request
    hist,             \* history of what happened around a store_balances or create_client call
    ops_started,      \* number of service calls started
    audit,            \* what was applied to and exported from each client's balance so far
    counter           \* FileExporter.counter

vars == <<clients, client_balances, id_counter, balances_lock, pc, local, hist, ops_started,
          audit, counter>>

\* ------------------------------------------------------------ values
EmptyMap == <<>>

\* the payload of a result that carries none
Unit == [unit |-> TRUE]

NoResult == [kind |-> "none", err |-> "none", cause |-> <<>>, value |-> Unit]

Ok(v) == [kind |-> "Ok", err |-> "none", cause |-> <<>>, value |-> v]

\* an error; Unknown carries the chain of messages of its cause
Err(name, chain) == [kind |-> "Err", err |-> name, cause |-> chain, value |-> Unit]

\* an error variant with a field: Duplicate {document}, NotFoundById {id_document}, ...
ErrWith(name, field) == [kind |-> "Err", err |-> name, cause |-> <<>>, value |-> field]

\* the chain of messages an error displays, outermost first
ChainOf(e) == IF e.err = "Unknown" THEN e.cause ELSE <<e.err>>

\* result.with_context(ctx)? : an Err becomes Unknown(anyhow) with ctx on top
WithContext(r, ctx) == IF r.kind = "Ok" THEN r ELSE Err("Unknown", <<ctx>> \o ChainOf(r))

\* failures the ports may report (adapter-level faults)
FaultEmpty == Err("Unknown", <<"are_balances_empty failed">>)

FaultReset == Err("Unknown", <<"reset_all_balances_to_zero failed">>)

FaultMerge == Err("Unknown", <<"merge_old_balances failed">>)

FaultInit == Err("Unknown", <<"init_client_balance failed">>)

FaultLookup == Err("Unknown", <<"get_client_by_document failed">>)

FaultDelete == Err("Unknown", <<"delete_client failed">>)

FaultExport == Err("Unknown", <<"export_balances failed">>)

Balance_new(id, amount) == [id |-> id, balance |-> amount]

\* mutant: set_balance returns the amount it has just stored
set_balance_ReturnsNew(b, amount) == [balance |-> [b EXCEPT !.balance = amount], old_balance |-> amount]

\* Balance::set_balance: stores the new amount and returns the old one
set_balance(b, amount) == [balance |-> [b EXCEPT !.balance = amount], old_balance |-> b.balance]

\* mutant: the name and the country of the request are passed in each other's place
Client_new_Swapped(id, req) ==
    [id |-> id, name |-> req.country, birth_date |-> req.birth_date,
     document |-> req.document, country |-> req.name]

\* Client::new, as InMemoryRepository::create_client calls it with the request's fields
Client_new(id, req) ==
    [id |-> id, name |-> req.name, birth_date |-> req.birth_date,
     document |-> req.document, country |-> req.country]

CreateClientRequest_new(name, birth_date, document, country) ==
    [name |-> name, birth_date |-> birth_date, document |-> document, country |-> country]

\* the valid requests offered to create_client: one person per document
CreateRequests ==
    {CreateClientRequest_new("Ana", "1990-01-01", "d1", "AR"),
     CreateClientRequest_new("Bo", "1985-05-05", "d2", "UY")}

\* mutant: the zero amount is not rejected
CreditTransactionRequest_new_ZeroAccepted(client_id, amount) ==
    IF amount < 0 THEN Err("NegativeAmount", <<>>)
    ELSE Ok([client_id |-> client_id, amount |-> amount])

CreditTransactionRequest_new(client_id, amount) ==
    IF amount < 0 THEN Err("NegativeAmount", <<>>)
    ELSE IF amount = 0 THEN Err("ZeroAmount", <<>>)
    ELSE Ok([client_id |-> client_id, amount |-> amount])

\* mutant: the amount of a debit is stored as its absolute value
DebitTransactionRequest_new_Absolute(client_id, amount) ==
    IF amount > 0 THEN Err("PositiveAmount", <<>>)
    ELSE IF amount = 0 THEN Err("ZeroAmount", <<>>)
    ELSE Ok([client_id |-> client_id, amount |-> 0 - amount])

DebitTransactionRequest_new(client_id, amount) ==
    IF amount > 0 THEN Err("PositiveAmount", <<>>)
    ELSE IF amount = 0 THEN Err("ZeroAmount", <<>>)
    ELSE Ok([client_id |-> client_id, amount |-> amount])

NoLocal ==
    [op |-> "none", req |-> Unit, lookup |-> NoResult, client |-> Unit,
     client_balance |-> Unit, old_balance_clients |-> <<>>, pending |-> {}, e |-> NoResult, trace |-> <<>>,
     counter |-> {}, result |-> NoResult]

NoHist ==
    [pre_call |-> EmptyMap, at_reset |-> EmptyMap, during |-> {}, applied |-> EmptyMap,
     doc_in_ledger |-> FALSE, doc_created |-> FALSE]

\* ------------------------------------------------------------ history
TxOps == {"credit_balance", "debit_balance"}

\* another request's effect on the ledger is noted by every store_balances call, a
\* change of the clients by every create_client call in progress, and a reset or a
\* merge by every credit_balance or debit_balance call in progress
Touch(p, kind) ==
    [q \in Procs |->
        IF /\ q # p
           /\ \/ local[q].op = "store_balances"
              \/ local[q].op = "create_client" /\ pc[q] # "done" /\ kind = "client"
              \/ local[q].op \in TxOps /\ pc[q] # "done" /\ kind \in {"reset", "merge"}
        THEN [hist[q] EXCEPT !.during = @ \cup {kind}]
        ELSE hist[q]]

\* a credit/debit of amount a on client c is added to the sums kept since each reset,
\* and to the sums kept by the credit_balance and debit_balance calls in progress
TouchUpdate(p, c, a) ==
    [q \in Procs |->
        IF /\ q # p
           /\ \/ local[q].op = "store_balances"
              \/ local[q].op \in TxOps /\ pc[q] # "done"
        THEN [hist[q] EXCEPT !.during = @ \cup {"update"},
                             !.applied = [x \in DOMAIN @ |-> IF x = c THEN @[x] + a ELSE @[x]]]
        ELSE hist[q]]

\* nothing was applied, nothing was exported and no merge has failed; the exporter was
\* built in a directory without exported files
NoAudit ==
    [applied |-> [c \in Ids |-> 0], exported |-> [c \in Ids |-> 0], merge_failed |-> FALSE,
     last_file_counter |-> 0]

Init ==
    /\ audit = NoAudit
    /\ counter = NoAudit.last_file_counter
    /\ clients = EmptyMap
    /\ client_balances = EmptyMap
    /\ id_counter = 0
    /\ balances_lock = "free"
    /\ pc = [p \in Procs |-> "idle"]
    /\ local = [p \in Procs |-> NoLocal]
    /\ hist = [p \in Procs |-> NoHist]
    /\ ops_started = 0

\* the clients of the ledger that carry the document
HoldersOf(document) == {c \in DOMAIN clients : clients[c].document = document}

\* a request arrives and enters a service method; the previous request served by
\* this slot, if any, has its answer
Begin(p, op, req, first) ==
    /\ pc[p] \in {"idle", "done"}
    /\ ops_started < MaxOps
    /\ ops_started' = ops_started + 1
    /\ pc' = [pc EXCEPT ![p] = first]
    /\ local' = [local EXCEPT ![p] = [NoLocal EXCEPT !.op = op, !.req = req]]
    /\ hist' = [hist EXCEPT ![p] =
                  IF op = "store_balances"
                  THEN [NoHist EXCEPT !.pre_call = client_balances]
                  ELSE IF op = "create_client"
                  THEN [NoHist EXCEPT !.doc_in_ledger = HoldersOf(req.document) # {},
                                      !.doc_created = HoldersOf(req.document) \cap DOMAIN client_balances # {}]
                  ELSE IF op \in TxOps
                  THEN LET D == {req.client_id} \cap DOMAIN client_balances
                       IN [NoHist EXCEPT !.pre_call = [c \in D |-> client_balances[c]],
                                         !.applied = [c \in D |-> 0]]
                  ELSE NoHist]

\* the service method returns to its caller
Finish(p, r) ==
    /\ pc' = [pc EXCEPT ![p] = "done"]
    /\ local' = [local EXCEPT ![p].result = r]

\* ------------------------------------------------------------ create_client
StartCreateClient(p) ==
    /\ \E req \in CreateRequests : Begin(p, "create_client", req, "cc_lookup")
    /\ id_counter + Cardinality({q \in Procs : pc[q] \in {"cc_lookup", "cc_create"}}) < MaxClients
    /\ UNCHANGED <<clients, client_balances, id_counter, balances_lock>>
    /\ UNCHANGED <<audit, counter>>

\* repository get_client_by_document
get_client_by_document(document) ==
    IF \E c \in DOMAIN clients : clients[c].document = document
    THEN Ok(clients[CHOOSE c \in DOMAIN clients : clients[c].document = document])
    ELSE ErrWith("NotFoundByDocument", [document |-> document])

\* what the port's get_client_by_document may answer: the repository's answer or a failure
LookupOutcomes(document) == {get_client_by_document(document), FaultLookup}

\* mutant: the Duplicate error does not carry the document of the request
validate_client_exists_by_document_NoDocument(document, result) ==
    IF result.kind = "Err"
    THEN Ok(Unit)
    ELSE ErrWith("Duplicate", [document |-> ""])

\* Service::validate_client_exists_by_document, on the answer of the lookup:
\* if result.is_err() { return Ok(()) }, otherwise Duplicate
validate_client_exists_by_document(document, result) ==
    IF result.kind = "Err"
    THEN Ok(Unit)
    ELSE ErrWith("Duplicate", [document |-> document])

CreateLookup(p) ==
    /\ pc[p] = "cc_lookup"
    /\ \E result \in LookupOutcomes(local[p].req.document) :
          LET r == validate_client_exists_by_document(local[p].req.document, result)
          IN /\ pc' = [pc EXCEPT ![p] = IF r.kind = "Err" THEN "done" ELSE "cc_create"]
             /\ local' = [local EXCEPT ![p].lookup = result,
                                       ![p].result = IF r.kind = "Err" THEN r ELSE NoResult]
    /\ UNCHANGED <<clients, client_balances, id_counter, balances_lock, hist, ops_started>>
    /\ UNCHANGED <<audit, counter>>

\* mutant: the counter is read but not advanced
fetch_add_Load(atomic) == [previous |-> atomic, counter |-> atomic]

\* AtomicUsize::fetch_add(1): the previous value is returned and the counter advanced,
\* in one atomic step
fetch_add(atomic) == [previous |-> atomic, counter |-> atomic + 1]

\* repository create_client, first half: id_counter.fetch_add(1)
CreateFetchId(p) ==
    /\ pc[p] = "cc_create"
    /\ id_counter' = fetch_add(id_counter).counter
    /\ local' = [local EXCEPT ![p].client = Client_new(fetch_add(id_counter).previous, local[p].req)]
    /\ pc' = [pc EXCEPT ![p] = "cc_insert"]
    /\ UNCHANGED <<clients, client_balances, balances_lock, hist, ops_started>>
    /\ UNCHANGED <<audit, counter>>

\* mutant: the repository does not look for the document among its clients
document_exists_Unchecked(document) == FALSE

\* repository create_client: clients.values().any(|c| c.document() == client.document())
document_exists(document) == \E c \in DOMAIN clients : clients[c].document = document

\* repository create_client, second half: under the clients mutex
CreateInsert(p) ==
    /\ pc[p] = "cc_insert"
    /\ LET client == local[p].client
       IN IF document_exists(client.document)
          THEN /\ Finish(p, ErrWith("Duplicate", [document |-> client.document]))
               /\ UNCHANGED <<clients, hist>>
          ELSE /\ clients' = clients @@ (client.id :> client)
               /\ pc' = [pc EXCEPT ![p] = "cc_init_exists"]
               /\ hist' = Touch(p, "client")
               /\ UNCHANGED local
    /\ UNCHANGED <<client_balances, id_counter, balances_lock, ops_started>>
    /\ UNCHANGED <<audit, counter>>

\* repository init_client_balance, first half: client_id_exists; the port may also fail
InitOutcomes(id) ==
    (IF id \in DOMAIN clients THEN {Ok(Unit)} ELSE {ErrWith("NotFoundById", [id_document |-> id])}) \cup {FaultInit}

\* mutant: the client is deleted when its balance was initialised
create_client_on_init_Inverted(client, r) ==
    IF r.kind = "Ok" THEN [pc |-> "cc_delete", e |-> r, result |-> NoResult]
    ELSE [pc |-> "done", e |-> NoResult, result |-> Ok(client)]

\* create_client, lines 85-100: what the service does with the answer of init_client_balance
create_client_on_init(client, r) ==
    IF r.kind = "Err" THEN [pc |-> "cc_delete", e |-> r, result |-> NoResult]
    ELSE [pc |-> "done", e |-> NoResult, result |-> Ok(client)]

CreateInitExists(p) ==
    /\ pc[p] = "cc_init_exists"
    /\ \E r \in InitOutcomes(local[p].client.id) :
          IF r.kind = "Ok"
          THEN /\ pc' = [pc EXCEPT ![p] = "cc_init_insert"]
               /\ UNCHANGED local
          ELSE LET d == create_client_on_init(local[p].client, r)
               IN /\ pc' = [pc EXCEPT ![p] = d.pc]
                  /\ local' = [local EXCEPT ![p].e = d.e, ![p].result = d.result]
    /\ UNCHANGED <<clients, client_balances, id_counter, balances_lock, hist, ops_started>>
    /\ UNCHANGED <<audit, counter>>

\* repository init_client_balance, second half: under the client_balances mutex
CreateInitInsert(p) ==
    /\ pc[p] = "cc_init_insert"
    /\ balances_lock = "free"
    /\ client_balances' = [x \in DOMAIN client_balances \cup {local[p].client.id} |->
                              IF x = local[p].client.id THEN Balance_new(x, 0) ELSE client_balances[x]]
    /\ hist' = Touch(p, "client")
    /\ LET d == create_client_on_init(local[p].client, Ok(Unit))
       IN /\ pc' = [pc EXCEPT ![p] = d.pc]
          /\ local' = [local EXCEPT ![p].e = d.e, ![p].result = d.result]
    /\ UNCHANGED <<clients, id_counter, balances_lock, ops_started>>
    /\ UNCHANGED <<audit, counter>>

\* mutant: a failed delete_client is not reported
create_client_on_delete_Swallowed(client, r) == Ok(client)

\* create_client, lines 94-100: delete_client(..).await? and then Ok(client)
create_client_on_delete(client, r) == IF r.kind = "Err" THEN r ELSE Ok(client)

\* mutant: the compensation empties the clients map
delete_client_Clear(client_id) == EmptyMap

\* InMemoryRepository::delete_client: clients.remove(client_id)
delete_client(client_id) == [x \in DOMAIN clients \ {client_id} |-> clients[x]]

\* the compensating delete of create_client, after a failed init_client_balance
CreateDelete(p) ==
    /\ pc[p] = "cc_delete"
    /\ clients' = delete_client(local[p].client.id)
    /\ hist' = Touch(p, "client")
    /\ Finish(p, create_client_on_delete(local[p].client, Ok(Unit)))
    /\ UNCHANGED <<client_balances, id_counter, balances_lock, ops_started>>
    /\ UNCHANGED <<audit, counter>>

\* the port's delete_client fails: the client stays
CreateDeleteFault(p) ==
    /\ pc[p] = "cc_delete"
    /\ Finish(p, create_client_on_delete(local[p].client, FaultDelete))
    /\ UNCHANGED <<clients, client_balances, id_counter, balances_lock, hist, ops_started>>
    /\ UNCHANGED <<audit, counter>>

\* ------------------------------------------------------------ credit / debit / read
\* repository client_id_exists
client_id_exists(client_id) == client_id \in DOMAIN clients

\* mutant: the existence check is skipped
validate_client_exists_Skipped(client_id) == Ok(Unit)

\* Service::validate_client_exists
validate_client_exists(client_id) ==
    IF ~client_id_exists(client_id)
    THEN ErrWith("NotFoundById", [id_document |-> client_id])
    ELSE Ok(Unit)

StartCreditBalance(p) ==
    /\ \E c \in Ids, a \in RawAmounts :
          /\ CreditTransactionRequest_new(c, a).kind = "Ok"
          /\ Begin(p, "credit_balance", CreditTransactionRequest_new(c, a).value, "tx_exists")
    /\ UNCHANGED <<clients, client_balances, id_counter, balances_lock>>
    /\ UNCHANGED <<audit, counter>>

StartDebitBalance(p) ==
    /\ \E c \in Ids, a \in RawAmounts :
          /\ DebitTransactionRequest_new(c, a).kind = "Ok"
          /\ Begin(p, "debit_balance", DebitTransactionRequest_new(c, a).value, "tx_exists")
    /\ UNCHANGED <<clients, client_balances, id_counter, balances_lock>>
    /\ UNCHANGED <<audit, counter>>

StartGetBalance(p) ==
    /\ \E c \in Ids : Begin(p, "get_balance_by_client_id", [client_id |-> c], "gb_exists")
    /\ UNCHANGED <<clients, client_balances, id_counter, balances_lock>>
    /\ UNCHANGED <<audit, counter>>

StartGetClient(p) ==
    /\ \E c \in Ids : Begin(p, "get_client_by_id", [client_id |-> c], "gc_exists")
    /\ UNCHANGED <<clients, client_balances, id_counter, balances_lock>>
    /\ UNCHANGED <<audit, counter>>

\* the repository call that follows a passed existence check
AfterExists(at) ==
    IF at = "tx_exists" THEN "tx_update" ELSE IF at = "gb_exists" THEN "gb_read" ELSE "gc_read"

\* the existence check that opens credit_balance, debit_balance, get_balance_by_client_id
\* and get_client_by_id
ValidateExists(p) ==
    /\ pc[p] \in {"tx_exists", "gb_exists", "gc_exists"}
    /\ LET r == validate_client_exists(local[p].req.client_id)
       IN IF r.kind = "Err"
          THEN Finish(p, r)
          ELSE /\ pc' = [pc EXCEPT ![p] = AfterExists(pc[p])]
               /\ UNCHANGED local
    /\ UNCHANGED <<clients, client_balances, id_counter, balances_lock, hist, ops_started>>
    /\ UNCHANGED <<audit, counter>>

\* mutant: the service wraps the repository's error with a context of its own
returned_by_service_Wrapped(r) == WithContext(r, "Error calling the repository")

\* credit_balance, debit_balance, get_balance_by_client_id and get_client_by_id after the
\* existence check: `let x = repository.call(req).await?; Ok(x)`
returned_by_service(r) == r

\* the repository has answered r and the service method returns
FinishWith(p, r) ==
    /\ pc' = [pc EXCEPT ![p] = "done"]
    /\ local' = [local EXCEPT ![p].e = r, ![p].result = returned_by_service(r)]

\* update_balance: client_balances.get_mut(client_id).ok_or(NotFoundById)
get_mut(client_id) ==
    IF client_id \notin DOMAIN client_balances
    THEN ErrWith("NotFoundById", [id_document |-> client_id])
    ELSE Ok(client_balances[client_id])

\* mutant: the amount replaces the balance instead of being added to it
update_balance_NoAdd(client_balance, amount) ==
    Ok(set_balance(client_balance, amount).balance)

\* InMemoryRepository::update_balance on the entry it holds: balance() + amount,
\* set_balance, Ok(client_balance.clone())
update_balance(client_balance, amount) ==
    LET new_decimal_balance == client_balance.balance + amount
    IN Ok(set_balance(client_balance, new_decimal_balance).balance)

\* mutant: the new balance is written to every entry of the ledger
entry_written_Everywhere(client_id, client_balance) ==
    [c \in DOMAIN client_balances |-> Balance_new(c, client_balance.balance)]

\* update_balance writes through the &mut it got from get_mut: the ledger with the
\* entry of client_id replaced
entry_written(client_id, client_balance) ==
    [client_balances EXCEPT ![client_id] = client_balance]

\* mutant: the repository calls do not wait for the mutex
CanLockBalances_NoMutex(p) == TRUE

\* whether a request may take the client_balances mutex for one of the short repository calls
CanLockBalances(p) == balances_lock = "free"

\* mutant: the guard of the mutex is dropped between the read and the write of the entry
LockForUpdate_Dropped(p) == "free"

\* the mutex while update_balance works on the entry: the guard lives to the end of the call
LockForUpdate(p) == p

\* mutant: the guard taken by update_balance is not dropped when the call returns
LockAfterUpdate_Held(p) == p

\* the mutex once update_balance has returned: its guard was a local of the call
LockAfterUpdate(p) == "free"

\* update_balance, first half: client_balances.lock().await and get_mut
UpdateBalance(p) ==
    /\ pc[p] = "tx_update"
    /\ CanLockBalances(p)
    /\ LET r == get_mut(local[p].req.client_id)
       IN IF r.kind = "Err"
          THEN /\ FinishWith(p, r)
               /\ UNCHANGED balances_lock
          ELSE /\ pc' = [pc EXCEPT ![p] = "tx_write"]
               /\ local' = [local EXCEPT ![p].client_balance = r.value]
               /\ balances_lock' = LockForUpdate(p)
    /\ UNCHANGED <<clients, client_balances, id_counter, hist, ops_started>>
    /\ UNCHANGED <<audit, counter>>

\* update_balance, second half: the new balance is stored, the guard is dropped and
\* the service returns the repository's answer
UpdateWrite(p) ==
    /\ pc[p] = "tx_write"
    /\ LET req == local[p].req
           r == update_balance(local[p].client_balance, req.amount)
       IN /\ client_balances' = entry_written(req.client_id, r.value)
          /\ hist' = TouchUpdate(p, req.client_id, req.amount)
          /\ FinishWith(p, r)
    /\ balances_lock' = LockAfterUpdate(p)
    /\ UNCHANGED <<clients, id_counter, ops_started>>
    /\ audit' = [audit EXCEPT !.applied[local[p].req.client_id] = @ + local[p].req.amount]
    /\ UNCHANGED counter

\* repository get_balance_by_client_id, under the client_balances mutex
get_balance_by_client_id(client_id) ==
    IF client_id \notin DOMAIN client_balances
    THEN ErrWith("NotFoundById", [id_document |-> client_id])
    ELSE Ok(client_balances[client_id])

GetBalance(p) ==
    /\ pc[p] = "gb_read"
    /\ CanLockBalances(p)
    /\ FinishWith(p, get_balance_by_client_id(local[p].req.client_id))
    /\ UNCHANGED <<clients, client_balances, id_counter, balances_lock, hist, ops_started>>
    /\ UNCHANGED <<audit, counter>>

\* repository get_client, under the clients mutex
get_client(client_id) ==
    IF client_id \notin DOMAIN clients
    THEN ErrWith("NotFoundById", [id_document |-> client_id])
    ELSE Ok(clients[client_id])

GetClient(p) ==
    /\ pc[p] = "gc_read"
    /\ FinishWith(p, get_client(local[p].req.client_id))
    /\ UNCHANGED <<clients, client_balances, id_counter, balances_lock, hist, ops_started>>
    /\ UNCHANGED <<audit, counter>>

\* ------------------------------------------------------------ store_balances
Called(p, call, r) == Append(local[p].trace, <<call, r.kind>>)

StartStoreBalances(p) ==
    /\ Begin(p, "store_balances", Unit, "sb_empty")
    /\ UNCHANGED <<clients, client_balances, id_counter, balances_lock>>
    /\ UNCHANGED <<audit, counter>>

\* mutant: a ledger whose balances are all zero counts as empty
are_balances_empty_AllZero ==
    {Ok(\A c \in DOMAIN client_balances : client_balances[c].balance = 0), FaultEmpty}

\* mutant: the ledger is never reported empty
are_balances_empty_Never == {Ok(FALSE), FaultEmpty}

\* repository are_balances_empty, under the client_balances mutex; the port may also fail
are_balances_empty == {Ok(DOMAIN client_balances = {}), FaultEmpty}

\* mutant: the emptiness answer is not acted upon
store_balances_on_empty_Ignored(r) ==
    IF r.kind = "Err" THEN [pc |-> "done", result |-> r]
    ELSE [pc |-> "sb_reset", result |-> NoResult]

\* store_balances, lines 135-137: what the service does with the emptiness answer
store_balances_on_empty(r) ==
    IF r.kind = "Err" THEN [pc |-> "done", result |-> r]
    ELSE IF r.value THEN [pc |-> "done", result |-> Err("BalancesEmpty", <<>>)]
    ELSE [pc |-> "sb_reset", result |-> NoResult]

SbCheckEmpty(p) ==
    /\ pc[p] = "sb_empty"
    /\ CanLockBalances(p)
    /\ \E r \in are_balances_empty :
          LET d == store_balances_on_empty(r)
          IN /\ pc' = [pc EXCEPT ![p] = d.pc]
             /\ local' = [local EXCEPT ![p].trace = Called(p, "are_balances_empty", r),
                                       ![p].result = d.result]
    /\ UNCHANGED <<clients, client_balances, id_counter, balances_lock, hist, ops_started>>
    /\ UNCHANGED <<audit, counter>>

\* mutant: a failed reset does not stop the workflow
store_balances_on_reset_Ignored(r) == [pc |-> "sb_export", result |-> NoResult]

\* mutant: a failed reset is reported as a success
store_balances_on_reset_Swallowed(r) ==
    IF r.kind = "Err" THEN [pc |-> "done", result |-> Ok(Unit)]
    ELSE [pc |-> "sb_export", result |-> NoResult]

\* store_balances, lines 139-143: what the service does with the answer of the reset
store_balances_on_reset(r) ==
    LET c == WithContext(r, "Error resetting all balances to zero")
    IN IF c.kind = "Err" THEN [pc |-> "done", result |-> c]
       ELSE [pc |-> "sb_export", result |-> NoResult]

\* the port's reset fails: nothing was reset
SbResetFault(p) ==
    /\ pc[p] = "sb_reset"
    /\ LET d == store_balances_on_reset(FaultReset)
       IN /\ pc' = [pc EXCEPT ![p] = d.pc]
          /\ local' = [local EXCEPT ![p].trace = Called(p, "reset_all_balances_to_zero", FaultReset),
                                    ![p].result = d.result]
    /\ UNCHANGED <<clients, client_balances, id_counter, balances_lock, hist, ops_started>>
    /\ UNCHANGED <<audit, counter>>

\* reset_all_balances_to_zero: client_balances.lock().await, then values_mut() starts
SbResetLock(p) ==
    /\ pc[p] = "sb_reset"
    /\ CanLockBalances(p)
    /\ balances_lock' = p
    /\ pc' = [pc EXCEPT ![p] = "sb_resetting"]
    /\ local' = [local EXCEPT ![p].pending = DOMAIN client_balances,
                              ![p].old_balance_clients = <<>>]
    /\ hist' = [hist EXCEPT ![p].at_reset = client_balances]
    /\ UNCHANGED <<clients, client_balances, id_counter, ops_started>>
    /\ UNCHANGED <<audit, counter>>

\* the mutex after one entry of the reset has been processed: the guard is still alive
LockAfterResetEntry(p) == p

\* mutant: the entry is captured but not zeroed
reset_entry_NoZero(b) == [balance |-> b, old_balance |-> b.balance]

\* reset_all_balances_to_zero, the closure applied to each entry: set_balance(0)
reset_entry(b) == set_balance(b, 0)

\* reset_all_balances_to_zero: one entry of the map closure, in the map's iteration order
SbResetEntry(p) ==
    /\ pc[p] = "sb_resetting"
    /\ \E c \in local[p].pending :
          LET set == reset_entry(client_balances[c])
          IN /\ client_balances' = [client_balances EXCEPT ![c] = set.balance]
             /\ local' = [local EXCEPT
                   ![p].pending = @ \ {c},
                   ![p].old_balance_clients = Append(@, Balance_new(set.balance.id, set.old_balance))]
    /\ balances_lock' = LockAfterResetEntry(p)
    /\ hist' = Touch(p, "reset")
    /\ UNCHANGED <<clients, id_counter, pc, ops_started>>
    /\ UNCHANGED <<audit, counter>>

\* mutant: the guard taken by the reset is kept while the service awaits the exporter
LockAfterReset_Held(p) == p

\* the mutex once reset_all_balances_to_zero has returned: its guard was a local of the call
LockAfterReset(p) == "free"

\* reset_all_balances_to_zero: collect is complete, the guard is dropped, Ok(old_balances)
SbResetUnlock(p) ==
    /\ pc[p] = "sb_resetting"
    /\ local[p].pending = {}
    /\ balances_lock' = LockAfterReset(p)
    /\ LET r == Ok(local[p].old_balance_clients)
           d == store_balances_on_reset(r)
       IN /\ pc' = [pc EXCEPT ![p] = d.pc]
          /\ local' = [local EXCEPT ![p].trace = Called(p, "reset_all_balances_to_zero", r),
                                    ![p].result = d.result]
          /\ hist' = [hist EXCEPT ![p].applied =
                         [c \in {r.value[i].id : i \in DOMAIN r.value} |-> 0]]
    /\ UNCHANGED <<clients, client_balances, id_counter, ops_started>>
    /\ UNCHANGED <<audit, counter>>

RECURSIVE SumOld(_, _)
\* the sum of the old balances that a list holds for client c
SumOld(old, c) ==
    IF old = <<>> THEN 0
    ELSE (IF Head(old).id = c THEN Head(old).balance ELSE 0) + SumOld(Tail(old), c)

\* FileExporter::export_balances: empty list is rejected, otherwise the file is written or I/O fails
export_balances(balances) ==
    IF balances = <<>> THEN {Err("BalancesEmpty", <<>>)} ELSE {Ok(Unit), FaultExport}

\* mutant: the compensation runs whatever the exporter answered
store_balances_on_export_AlwaysMerges(r) ==
    LET c == WithContext(r, "Error exporting balances")
    IN [pc |-> "sb_merge", e |-> c, result |-> NoResult]

\* mutant: the file is numbered with the value the counter had before the increment
file_counter_Previous(previous) == previous

\* FileExporter::export_balances, line 67: the number of the file is the value that
\* fetch_add returned, plus one
file_counter(previous) == previous + 1

\* store_balances, lines 145-162: what the service does with the exporter's answer
store_balances_on_export(r) ==
    LET c == WithContext(r, "Error exporting balances")
    IN IF c.kind = "Err" THEN [pc |-> "sb_merge", e |-> c, result |-> NoResult]
       ELSE [pc |-> "done", e |-> NoResult, result |-> Ok(Unit)]

SbExport(p) ==
    /\ pc[p] = "sb_export"
    /\ \E r \in export_balances(local[p].old_balance_clients) :
          LET d == store_balances_on_export(r)
          IN /\ pc' = [pc EXCEPT ![p] = d.pc]
             /\ local' = [local EXCEPT
                   ![p].trace = Called(p, "export_balances", r),
                   ![p].counter = IF local[p].old_balance_clients = <<>> THEN {}
                                  ELSE {file_counter(fetch_add(counter).previous)},
                   ![p].e = d.e,
                   ![p].result = d.result]
             /\ counter' = IF local[p].old_balance_clients = <<>> THEN counter
                           ELSE fetch_add(counter).counter
             /\ audit' = IF r.kind = "Ok"
                         THEN [audit EXCEPT !.exported =
                                  [c \in Ids |-> @[c] + SumOld(local[p].old_balance_clients, c)]]
                         ELSE audit
    /\ UNCHANGED <<clients, client_balances, id_counter, balances_lock, hist, ops_started>>

\* mutant: the merge leaves the current balance as it is
merge_one_Skip(actual, old_client_balance) == actual

\* mutant: the merge overwrites the current balance with the old one
merge_one_Overwrite(actual, old_client_balance) ==
    IF old_client_balance.id \in DOMAIN actual
    THEN [actual EXCEPT ![old_client_balance.id] = set_balance(@, old_client_balance.balance).balance]
    ELSE actual

\* mutant: an old balance of a client without entry is inserted instead of skipped
merge_one_Insert(actual, old_client_balance) ==
    IF old_client_balance.id \in DOMAIN actual
    THEN [actual EXCEPT ![old_client_balance.id] =
             set_balance(@, old_client_balance.balance + @.balance).balance]
    ELSE actual @@ (old_client_balance.id :> old_client_balance)

\* mutant: an entry that the merge brings to zero is removed from the ledger
merge_one_Drain(actual, old_client_balance) ==
    IF old_client_balance.id \in DOMAIN actual
    THEN IF old_client_balance.balance + actual[old_client_balance.id].balance = 0
         THEN [c \in DOMAIN actual \ {old_client_balance.id} |-> actual[c]]
         ELSE [actual EXCEPT ![old_client_balance.id] =
                  set_balance(@, old_client_balance.balance + @.balance).balance]
    ELSE actual

\* the effect of merging one old balance into the current balances
merge_one(actual, old_client_balance) ==
    IF old_client_balance.id \in DOMAIN actual
    THEN [actual EXCEPT ![old_client_balance.id] =
             set_balance(@, old_client_balance.balance + @.balance).balance]
    ELSE actual

\* mutant: only the first old balance of the list is merged
merge_old_balances_HeadOnly(actual, old_client_balances) ==
    IF old_client_balances = <<>> THEN actual
    ELSE merge_one(actual, Head(old_client_balances))

RECURSIVE merge_old_balances(_, _)
\* InMemoryRepository::merge_old_balances: for_each over the old balances
merge_old_balances(actual, old_client_balances) ==
    IF old_client_balances = <<>> THEN actual
    ELSE merge_old_balances(merge_one(actual, Head(old_client_balances)), Tail(old_client_balances))

\* mutant: after a successful compensation the method falls through to Ok(())
store_balances_on_merge_ReturnsOk(e, r) ==
    LET c == WithContext(r, "Error merging old balances")
    IN IF c.kind = "Err" THEN c ELSE Ok(Unit)

\* mutant: the export error is returned whatever the merge answered
store_balances_on_merge_ExportError(e, r) == Err("Unknown", e.cause)

\* mutant: after the compensation the exporter's own error is returned, unwrapped
store_balances_on_merge_Unwrapped(e, r) ==
    LET c == WithContext(r, "Error merging old balances")
    IN IF c.kind = "Err" THEN c
       ELSE IF e.cause[Len(e.cause)] = "BalancesEmpty" THEN Err("BalancesEmpty", <<>>)
       ELSE Err("Unknown", Tail(e.cause))

\* store_balances, lines 155-159: what the service returns after the compensation
store_balances_on_merge(e, r) ==
    LET c == WithContext(r, "Error merging old balances")
    IN IF c.kind = "Err" THEN c ELSE Err("Unknown", e.cause)

SbMerge(p) ==
    /\ pc[p] = "sb_merge"
    /\ CanLockBalances(p)
    /\ client_balances' = merge_old_balances(client_balances, local[p].old_balance_clients)
    /\ hist' = Touch(p, "merge")
    /\ pc' = [pc EXCEPT ![p] = "done"]
    /\ local' = [local EXCEPT ![p].trace = Called(p, "merge_old_balances", Ok(Unit)),
                              ![p].result = store_balances_on_merge(local[p].e, Ok(Unit))]
    /\ UNCHANGED <<clients, id_counter, balances_lock, ops_started>>
    /\ UNCHANGED <<audit, counter>>

\* the port's merge fails: nothing was merged
SbMergeFault(p) ==
    /\ pc[p] = "sb_merge"
    /\ pc' = [pc EXCEPT ![p] = "done"]
    /\ local' = [local EXCEPT ![p].trace = Called(p, "merge_old_balances", FaultMerge),
                              ![p].result = store_balances_on_merge(local[p].e, FaultMerge)]
    /\ UNCHANGED <<clients, client_balances, id_counter, balances_lock, hist, ops_started>>
    /\ audit' = [audit EXCEPT !.merge_failed = TRUE]
    /\ UNCHANGED counter

\* ------------------------------------------------------------ system
\* one step of a call that is in progress
Step(p) ==
    \/ CreateLookup(p) \/ CreateFetchId(p) \/ CreateInsert(p) \/ CreateInitExists(p)
    \/ CreateInitInsert(p) \/ CreateDelete(p) \/ CreateDeleteFault(p)
    \/ ValidateExists(p) \/ UpdateBalance(p) \/ UpdateWrite(p) \/ GetBalance(p) \/ GetClient(p)
    \/ SbCheckEmpty(p) \/ SbResetFault(p) \/ SbResetLock(p) \/ SbResetEntry(p)
    \/ SbResetUnlock(p) \/ SbExport(p) \/ SbMerge(p) \/ SbMergeFault(p)

Next ==
    \E p \in Procs :
        \/ StartCreateClient(p)
        \/ CreateLookup(p)
        \/ CreateFetchId(p)
        \/ CreateInsert(p)
        \/ CreateInitExists(p)
        \/ CreateInitInsert(p)
        \/ CreateDelete(p)
        \/ CreateDeleteFault(p)
        \/ StartCreditBalance(p)
        \/ StartDebitBalance(p)
        \/ StartGetBalance(p)
        \/ StartGetClient(p)
        \/ ValidateExists(p)
        \/ UpdateBalance(p)
        \/ UpdateWrite(p)
        \/ GetBalance(p)
        \/ GetClient(p)
        \/ StartStoreBalances(p)
        \/ SbCheckEmpty(p)
        \/ SbResetFault(p)
        \/ SbResetLock(p)
        \/ SbResetEntry(p)
        \/ SbResetUnlock(p)
        \/ SbExport(p)
        \/ SbMerge(p)
        \/ SbMergeFault(p)

Spec == Init /\ [][Next]_vars

\* the runtime polls every pending future, and the tokio mutex is fair (FIFO)
FairSpec == Spec /\ \A p \in Procs : SF_vars(Step(p))

\* ------------------------------------------------------------ merge_old_balances alone
\* longest list of old balances handed to merge_old_balances
MaxOld == 2

\* amounts held by the balances handed to merge_old_balances
MergeAmounts == {-1, 0, 1}

\* the maps ClientId -> Balance over the ids of the model
BalanceMaps ==
    UNION {{[c \in D |-> Balance_new(c, f[c])] : f \in [D -> MergeAmounts]} : D \in SUBSET Ids}

\* the lists of old balances: any Vec<Balance>, whether or not the ids are in the map
OldBalanceLists ==
    UNION {[1 .. n -> {Balance_new(c, a) : c \in Ids, a \in MergeAmounts}] : n \in 0 .. MaxOld}

\* store_balances is about to compensate a failed export: the arguments of
\* merge_old_balances are drawn from all maps and all lists
MergeInit ==
    /\ audit = NoAudit
    /\ counter = NoAudit.last_file_counter
    /\ clients = EmptyMap
    /\ client_balances \in BalanceMaps
    /\ id_counter = MaxClients
    /\ balances_lock = "free"
    /\ ops_started = MaxOps
    /\ hist = [p \in Procs |-> NoHist]
    /\ \E p \in Procs, old \in OldBalanceLists :
          /\ pc = [q \in Procs |-> IF q = p THEN "sb_merge" ELSE "idle"]
          /\ local = [q \in Procs |->
                IF q = p
                THEN [NoLocal EXCEPT !.op = "store_balances",
                                     !.old_balance_clients = old,
                                     !.e = WithContext(FaultExport, "Error exporting balances"),
                                     !.trace = <<<<"are_balances_empty", "Ok">>,
                                                  <<"reset_all_balances_to_zero", "Ok">>,
                                                  <<"export_balances", "Err">>>>]
                ELSE NoLocal]

MergeNext == \E p \in Procs : SbMerge(p) \/ SbMergeFault(p)

MergeSpec == MergeInit /\ [][MergeNext]_vars

\* ------------------------------------------------------------ store_balances alone
\* store_balances over any repository and exporter that keep the ports' contracts: it
\* is either called on any ledger, or about to hand the exporter any list that a
\* reset_all_balances_to_zero may have returned, the empty list included
StoreInit ==
    /\ audit = NoAudit
    /\ counter = NoAudit.last_file_counter
    /\ client_balances \in BalanceMaps
    /\ \E req \in CreateRequests :
          clients = [c \in DOMAIN client_balances |-> Client_new(c, req)]
    /\ id_counter = MaxClients
    /\ balances_lock = "free"
    /\ ops_started = MaxOps
    /\ \E p \in Procs :
          /\ hist = [q \in Procs |->
                IF q = p THEN [NoHist EXCEPT !.pre_call = client_balances] ELSE NoHist]
          /\ \/ /\ pc = [q \in Procs |-> IF q = p THEN "sb_empty" ELSE "idle"]
                /\ local = [q \in Procs |->
                      IF q = p THEN [NoLocal EXCEPT !.op = "store_balances"] ELSE NoLocal]
             \/ \E old \in OldBalanceLists :
                   /\ pc = [q \in Procs |-> IF q = p THEN "sb_export" ELSE "idle"]
                   /\ local = [q \in Procs |->
                         IF q = p
                         THEN [NoLocal EXCEPT !.op = "store_balances",
                                              !.old_balance_clients = old,
                                              !.trace = <<<<"are_balances_empty", "Ok">>,
                                                           <<"reset_all_balances_to_zero", "Ok">>>>]
                         ELSE NoLocal]

StoreNext ==
    \E p \in Procs :
        \/ SbCheckEmpty(p)
        \/ SbResetFault(p)
        \/ SbResetLock(p)
        \/ SbResetEntry(p)
        \/ SbResetUnlock(p)
        \/ SbExport(p)
        \/ SbMerge(p)
        \/ SbMergeFault(p)

StoreSpec == StoreInit /\ [][StoreNext]_vars

\* ------------------------------------------------------------ export_balances alone
\* largest counter FileExporter::new may find among the files of the directory
MaxCounter == 2

\* the lists handed to the exporter: the empty one and those of one balance
ExportLists == {old \in OldBalanceLists : Len(old) <= 1}

\* one FileExporter, built in a directory whose files reach any counter, is called by
\* two store_balances executions at once, each with any list
ExportInit ==
    /\ counter \in 0 .. MaxCounter
    /\ audit = [NoAudit EXCEPT !.last_file_counter = counter]
    /\ client_balances \in BalanceMaps
    /\ \E req \in CreateRequests :
          clients = [c \in DOMAIN client_balances |-> Client_new(c, req)]
    /\ id_counter = MaxClients
    /\ balances_lock = "free"
    /\ ops_started = MaxOps
    /\ hist = [q \in Procs |-> [NoHist EXCEPT !.pre_call = client_balances]]
    /\ pc = [q \in Procs |-> "sb_export"]
    /\ local \in [Procs -> {[NoLocal EXCEPT !.op = "store_balances",
                                            !.old_balance_clients = old,
                                            !.trace = <<<<"are_balances_empty", "Ok">>,
                                                         <<"reset_all_balances_to_zero", "Ok">>>>] :
                               old \in ExportLists}]

ExportNext == \E p \in Procs : SbExport(p) \/ SbMerge(p) \/ SbMergeFault(p)

ExportSpec == ExportInit /\ [][ExportNext]_vars

\* ------------------------------------------------------------ constructors alone
\* strings are sequences of characters
Whitespace == {" ", "\t"}

Digits == {"0", "1", "2", "3", "4", "5", "6", "7", "8", "9"}

RECURSIVE TrimStart(_)
TrimStart(s) == IF s # <<>> /\ Head(s) \in Whitespace THEN TrimStart(Tail(s)) ELSE s

RECURSIVE TrimEnd(_)
TrimEnd(s) ==
    IF s # <<>> /\ s[Len(s)] \in Whitespace THEN TrimEnd(SubSeq(s, 1, Len(s) - 1)) ELSE s

\* str::trim
Trim(s) == TrimEnd(TrimStart(s))

MAX_LENGTH_NAME == 128

MAX_LENGTH_DOCUMENT == 64

MAX_LENGTH_COUNTRY == 32

FieldEmpty(field_name) == ErrWith("FieldEmpty", [field_name |-> field_name])

FieldMaxLength(field_name, max_length) ==
    ErrWith("FieldMaxLength", [field_name |-> field_name, max_length |-> max_length])

FieldInvalid(field_name, value) ==
    ErrWith("FieldInvalid", [field_name |-> field_name, value |-> value])

\* ClientName::new, Document::new and Country::new differ in the field and its maximum
TextField_new(field_name, max_length, raw) ==
    LET name == Trim(raw)
    IN IF name = <<>> THEN FieldEmpty(field_name)
       ELSE IF Len(name) > max_length THEN FieldMaxLength(field_name, max_length)
       ELSE Ok([value |-> name])

ClientName_new(name) == TextField_new("name", MAX_LENGTH_NAME, name)

Document_new(name) == TextField_new("document", MAX_LENGTH_DOCUMENT, name)

Country_new(name) == TextField_new("country", MAX_LENGTH_COUNTRY, name)

AllDigits(s) == \A i \in DOMAIN s : s[i] \in Digits

DigitValue(d) == CHOOSE n \in 0 .. 9 : ToString(n) = d

\* the number written by one or two digits
SmallNumber(s) == IF Len(s) = 1 THEN DigitValue(s[1]) ELSE 10 * DigitValue(s[1]) + DigitValue(s[2])

\* the positions of the hyphens of a string
Hyphens(s) == {i \in DOMAIN s : s[i] = "-"}

\* the three parts of a string with two hyphens
DateParts(s) ==
    LET i == CHOOSE x \in Hyphens(s) : \A y \in Hyphens(s) : x <= y
        j == CHOOSE x \in Hyphens(s) : \A y \in Hyphens(s) : y <= x
    IN [year |-> SubSeq(s, 1, i - 1), month |-> SubSeq(s, i + 1, j - 1),
        day |-> SubSeq(s, j + 1, Len(s))]

\* NaiveDate::parse_from_str(s, "%Y-%m-%d") succeeds: a year, a month 1..12 and a day
\* 1..31 (the length of each month is left out), separated by hyphens
IsDate(s) ==
    /\ Cardinality(Hyphens(s)) = 2
    /\ LET d == DateParts(s)
       IN /\ Len(d.year) = 4 /\ AllDigits(d.year)
          /\ Len(d.month) \in {1, 2} /\ AllDigits(d.month)
          /\ SmallNumber(d.month) \in 1 .. 12
          /\ Len(d.day) \in {1, 2} /\ AllDigits(d.day)
          /\ SmallNumber(d.day) \in 1 .. 31

\* the NaiveDate a well-formed string denotes
ParseDate(s) ==
    LET d == DateParts(s)
    IN [year |-> 100 * SmallNumber(SubSeq(d.year, 1, 2)) + SmallNumber(SubSeq(d.year, 3, 4)),
        month |-> SmallNumber(d.month), day |-> SmallNumber(d.day)]

\* BirthDate::new
BirthDate_new(raw) ==
    LET name == Trim(raw)
    IN IF name = <<>> THEN FieldEmpty("birth_date")
       ELSE IF ~IsDate(name) THEN FieldInvalid("birth_date", name)
       ELSE Ok([value |-> ParseDate(name)])

\* str::parse::<usize> succeeds: digits after an optional plus sign (strings too short
\* to overflow)
IsUsize(s) ==
    LET t == IF s # <<>> /\ Head(s) = "+" THEN Tail(s) ELSE s
    IN t # <<>> /\ AllDigits(t)

\* the number a string of digits denotes
RECURSIVE ParseDigits(_)
ParseDigits(s) ==
    IF s = <<>> THEN 0
    ELSE 10 * ParseDigits(SubSeq(s, 1, Len(s) - 1)) + DigitValue(s[Len(s)])

\* the usize a well-formed string denotes
ParseUsize(s) == ParseDigits(IF Head(s) = "+" THEN Tail(s) ELSE s)

\* ClientId::new
ClientId_new(id) ==
    LET id_trimmed == Trim(id)
    IN IF id_trimmed = <<>> THEN FieldInvalid("client_id", id)
       ELSE IF IsUsize(id_trimmed) THEN Ok([value |-> ParseUsize(id_trimmed)])
       ELSE FieldInvalid("client_id", id)

\* n times the character ch
Repeat(ch, n) == [i \in 1 .. n |-> ch]

\* the texts offered to the constructors: empty, blank, padded, of each maximal
\* length and one more, numbers, dates and near misses of both
RawTexts ==
    {<<>>, <<" ">>, <<" ", "\t">>, <<"a">>, <<" ", "a", "\t">>, <<"a", " ", "b">>,
     <<"7">>, <<" ", "4", "2", " ">>, <<"+", "1">>, <<"0", "0", "7">>, <<"1", "a">>, <<"-", "1">>,
     <<"1", "9", "9", "0", "-", "0", "1", "-", "3", "1">>,
     <<" ", "1", "9", "9", "0", "-", "0", "1", "-", "3", "1", " ">>,
     <<"1", "9", "9", "0", "-", "1", "3", "-", "0", "1">>,
     <<"3", "1", "-", "0", "1", "-", "1", "9", "9", "0">>}
    \cup {Repeat("a", n) : n \in {MAX_LENGTH_COUNTRY, MAX_LENGTH_COUNTRY + 1,
                                  MAX_LENGTH_DOCUMENT, MAX_LENGTH_DOCUMENT + 1,
                                  MAX_LENGTH_NAME, MAX_LENGTH_NAME + 1}}
    \cup {<<" ">> \o Repeat("a", MAX_LENGTH_NAME) \o <<" ">>}

\* largest absolute amount offered to the transaction request constructors
MaxAmount == 2

ConstructAmounts == (0 - MaxAmount) .. MaxAmount

\* what a caller keeps of one constructor call: its arguments and its answer
Constructed_by(op, req, r) == [NoLocal EXCEPT !.op = op, !.req = req, !.result = r]

ConstructCredit(p) ==
    /\ pc[p] = "idle"
    /\ \E c \in Ids, a \in ConstructAmounts :
           local' = [local EXCEPT ![p] = Constructed_by("CreditTransactionRequest::new", [client_id |-> c, amount |-> a], CreditTransactionRequest_new(c, a))]
    /\ pc' = [pc EXCEPT ![p] = "done"]
    /\ UNCHANGED <<clients, client_balances, id_counter, balances_lock, hist, ops_started>>
    /\ UNCHANGED <<audit, counter>>

ConstructDebit(p) ==
    /\ pc[p] = "idle"
    /\ \E c \in Ids, a \in ConstructAmounts :
           local' = [local EXCEPT ![p] = Constructed_by("DebitTransactionRequest::new", [client_id |-> c, amount |-> a], DebitTransactionRequest_new(c, a))]
    /\ pc' = [pc EXCEPT ![p] = "done"]
    /\ UNCHANGED <<clients, client_balances, id_counter, balances_lock, hist, ops_started>>
    /\ UNCHANGED <<audit, counter>>

ConstructClientName(p) ==
    /\ pc[p] = "idle"
    /\ \E s \in RawTexts :
           local' = [local EXCEPT ![p] = Constructed_by("ClientName::new", [raw |-> s], ClientName_new(s))]
    /\ pc' = [pc EXCEPT ![p] = "done"]
    /\ UNCHANGED <<clients, client_balances, id_counter, balances_lock, hist, ops_started>>
    /\ UNCHANGED <<audit, counter>>

ConstructDocument(p) ==
    /\ pc[p] = "idle"
    /\ \E s \in RawTexts :
           local' = [local EXCEPT ![p] = Constructed_by("Document::new", [raw |-> s], Document_new(s))]
    /\ pc' = [pc EXCEPT ![p] = "done"]
    /\ UNCHANGED <<clients, client_balances, id_counter, balances_lock, hist, ops_started>>
    /\ UNCHANGED <<audit, counter>>

ConstructCountry(p) ==
    /\ pc[p] = "idle"
    /\ \E s \in RawTexts :
           local' = [local EXCEPT ![p] = Constructed_by("Country::new", [raw |-> s], Country_new(s))]
    /\ pc' = [pc EXCEPT ![p] = "done"]
    /\ UNCHANGED <<clients, client_balances, id_counter, balances_lock, hist, ops_started>>
    /\ UNCHANGED <<audit, counter>>

ConstructBirthDate(p) ==
    /\ pc[p] = "idle"
    /\ \E s \in RawTexts :
           local' = [local EXCEPT ![p] = Constructed_by("BirthDate::new", [raw |-> s], BirthDate_new(s))]
    /\ pc' = [pc EXCEPT ![p] = "done"]
    /\ UNCHANGED <<clients, client_balances, id_counter, balances_lock, hist, ops_started>>
    /\ UNCHANGED <<audit, counter>>

ConstructClientId(p) ==
    /\ pc[p] = "idle"
    /\ \E s \in RawTexts :
           local' = [local EXCEPT ![p] = Constructed_by("ClientId::new", [raw |-> s], ClientId_new(s))]
    /\ pc' = [pc EXCEPT ![p] = "done"]
    /\ UNCHANGED <<clients, client_balances, id_counter, balances_lock, hist, ops_started>>
    /\ UNCHANGED <<audit, counter>>

ConstructNext ==
    \E p \in Procs :
        \/ ConstructCredit(p)
        \/ ConstructDebit(p)
        \/ ConstructClientName(p)
        \/ ConstructDocument(p)
        \/ ConstructCountry(p)
        \/ ConstructBirthDate(p)
        \/ ConstructClientId(p)

ConstructSpec == Init /\ [][ConstructNext]_vars

\* ------------------------------------------------------------ properties
SbPcs == {"sb_empty", "sb_reset", "sb_resetting", "sb_export", "sb_merge"}

\* store_balances has returned to its caller, who still holds the answer
SbDone(p) == pc[p] = "done" /\ local[p].op = "store_balances"

\* the call made this port call and got this kind of answer
Did(p, call, kind) == \E i \in DOMAIN local[p].trace : local[p].trace[i] = <<call, kind>>

\* no other request changed the ledger since the call began
Quiet(p) == hist[p].during = {}

IsUnknown(r) == r.kind = "Err" /\ r.err = "Unknown"

Entries(seq) == {seq[i] : i \in DOMAIN seq}

Ledger(m) == {m[c] : c \in DOMAIN m}

AllZero == \A c \in DOMAIN client_balances : client_balances[c].balance = 0

ExportFailedMergeOk(p) ==
    SbDone(p) /\ Did(p, "export_balances", "Err") /\ Did(p, "merge_old_balances", "Ok")

ExportFailedMergeFailed(p) ==
    SbDone(p) /\ Did(p, "export_balances", "Err") /\ Did(p, "merge_old_balances", "Err")

\* C1: when the exporter fails, the merge succeeds and no other request touched the
\* ledger during the call, store_balances returns Unknown and the ledger is exactly
\* what it was before the call (reset followed by merge of the snapshot is the identity).
C1_ExportFailureRestores ==
    \A p \in Procs :
        (ExportFailedMergeOk(p) /\ Quiet(p))
            => /\ IsUnknown(local[p].result)
               /\ client_balances = hist[p].pre_call

C1_Witness ==
    \E p \in Procs :
        /\ ExportFailedMergeOk(p) /\ Quiet(p)
        /\ Cardinality(DOMAIN hist[p].pre_call) >= 2
        /\ \E c \in DOMAIN hist[p].pre_call : hist[p].pre_call[c].balance # 0

\* C2: when the exporter succeeds on a non-empty ledger and no other request touched
\* the ledger during the call, the snapshot handed to the exporter has exactly one
\* entry per ledger entry with the pre-call amount, store_balances returns Ok and
\* every balance reads 0.
C2_ExportSuccessSnapshot ==
    \A p \in Procs :
        (SbDone(p) /\ Did(p, "export_balances", "Ok") /\ Quiet(p))
            => /\ local[p].result = Ok(Unit)
               /\ Entries(local[p].old_balance_clients) = Ledger(hist[p].pre_call)
               /\ Len(local[p].old_balance_clients) = Cardinality(DOMAIN hist[p].pre_call)
               /\ DOMAIN client_balances = DOMAIN hist[p].pre_call
               /\ AllZero

C2_Witness ==
    \E p \in Procs :
        /\ SbDone(p) /\ Did(p, "export_balances", "Ok") /\ Quiet(p)
        /\ Len(local[p].old_balance_clients) >= 2
        /\ \E i \in DOMAIN local[p].old_balance_clients : local[p].old_balance_clients[i].balance # 0

\* C3: when the exporter fails and the merge fails too, with no other request touching
\* the ledger during the call, store_balances returns Unknown and every balance that
\* was reset is left at 0.
C3_MergeFailureLosesBalances ==
    \A p \in Procs :
        (ExportFailedMergeFailed(p) /\ Quiet(p))
            => /\ IsUnknown(local[p].result)
               /\ \A c \in DOMAIN hist[p].at_reset : client_balances[c].balance = 0

C3_Witness ==
    \E p \in Procs :
        /\ ExportFailedMergeFailed(p) /\ Quiet(p)
        /\ \E c \in DOMAIN hist[p].at_reset :
              hist[p].at_reset[c].balance # 0 /\ client_balances[c].balance = 0

\* C4: a store_balances call whose exporter call failed never returns Ok, whatever the
\* merge answered and whatever other requests did meanwhile.
C4_ExportFailureIsAnError ==
    \A p \in Procs :
        (SbDone(p) /\ Did(p, "export_balances", "Err")) => local[p].result.kind = "Err"

C4_Witness ==
    \E p \in Procs : ExportFailedMergeOk(p) /\ ~Quiet(p) /\ local[p].result.kind = "Err"

\* C5 as stated: when export and merge both fail, the returned error is the export
\* error (its cause is the exporter's failure).
C5_ReturnsExportError ==
    \A p \in Procs :
        ExportFailedMergeFailed(p) => local[p].result = Err("Unknown", local[p].e.cause)

\* C5 amended: when export and merge both fail, the returned error is Unknown carrying
\* the merge failure under the context "Error merging old balances"; the export error
\* is returned only when the merge succeeded.
C5_ReturnsMergeError ==
    \A p \in Procs :
        /\ ExportFailedMergeFailed(p)
              => /\ local[p].result =
                        Err("Unknown", <<"Error merging old balances">> \o ChainOf(FaultMerge))
                 /\ local[p].result.cause # local[p].e.cause
        /\ ExportFailedMergeOk(p)
              => local[p].result =
                    Err("Unknown", <<"Error exporting balances">> \o ChainOf(FaultExport))

C5_Witness ==
    \E p \in Procs :
        /\ ExportFailedMergeFailed(p)
        /\ local[p].e.cause = <<"Error exporting balances">> \o ChainOf(FaultExport)

\* C6: the compensation is additive: when credits/debits were applied between the reset
\* and the merge of a call whose export failed (and no other reset or merge ran), each
\* merged client's balance is its pre-reset amount plus the amounts applied since.
C6_MergeIsAdditive ==
    \A p \in Procs :
        (ExportFailedMergeOk(p) /\ hist[p].during \cap {"reset", "merge"} = {})
            => \A c \in DOMAIN hist[p].applied :
                  client_balances[c].balance = hist[p].at_reset[c].balance + hist[p].applied[c]

C6_Witness ==
    \E p \in Procs :
        /\ ExportFailedMergeOk(p) /\ hist[p].during \cap {"reset", "merge"} = {}
        /\ \E c \in DOMAIN hist[p].applied :
              /\ hist[p].applied[c] # 0
              /\ hist[p].at_reset[c].balance # 0
              /\ client_balances[c].balance # hist[p].at_reset[c].balance

\* a step in which request q reads the balances or starts a reset of its own
ObservesBalances(q) ==
    \/ pc[q] \in {"tx_update", "gb_read", "cc_init_insert"} /\ pc'[q] # pc[q]
    \/ pc[q] = "sb_empty" /\ pc'[q] # pc[q] /\ local'[q].trace = <<<<"are_balances_empty", "Ok">>>>
    \/ pc[q] = "sb_reset" /\ pc'[q] = "sb_resetting"
    \/ pc[q] = "sb_merge" /\ pc'[q] # pc[q] /\ Did(q, "merge_old_balances", "Ok")'

\* C7: the capture-and-zero step is atomic over the whole ledger: from the moment a
\* reset takes the mutex until it releases it, the only changes of the ledger are that
\* reset zeroing one more of its pending entries, no other request reads or writes a
\* balance, and the snapshot it returns is the ledger as it was when the reset began.
C7_ResetIsAtomic ==
    [][\A p \in Procs :
          pc[p] = "sb_resetting" =>
            /\ balances_lock = p
            /\ \A q \in Procs \ {p} : ~ObservesBalances(q)
            /\ DOMAIN client_balances' = DOMAIN client_balances
            /\ \A c \in DOMAIN client_balances :
                  \/ client_balances'[c] = client_balances[c]
                  \/ /\ c \in local[p].pending
                     /\ client_balances'[c].balance = 0
                     /\ local'[p].pending = local[p].pending \ {c}
            /\ pc'[p] = "sb_export" =>
                  /\ Entries(local'[p].old_balance_clients) = Ledger(hist[p].at_reset)
                  /\ Len(local'[p].old_balance_clients) = Cardinality(DOMAIN hist[p].at_reset)
                  /\ AllZero
      ]_vars

C7_Witness ==
    \E p \in Procs, q \in Procs :
        /\ pc[p] = "sb_resetting"
        /\ local[p].pending # {}
        /\ local[p].old_balance_clients # <<>>
        /\ pc[q] \in {"tx_update", "gb_read"}

\* C8: at most one store_balances is in flight: while one call is between its
\* capture-and-zero step and its return, no other call performs or has performed its
\* own capture-and-zero step without having returned.
C8_AtMostOneInFlight ==
    \A p \in Procs, q \in Procs :
        (p # q /\ pc[p] \in {"sb_export", "sb_merge"})
            => pc[q] \notin {"sb_resetting", "sb_export", "sb_merge"}

\* C9: store_balances on a ledger with zero entries returns BalancesEmpty right after
\* the emptiness check: no reset, export or merge is called and clients, balances and
\* the id counter are unchanged.
C9_EmptyLedgerNoMutation ==
    [][\A p \in Procs :
          ( /\ pc[p] = "sb_empty" /\ pc'[p] # "sb_empty"
            /\ DOMAIN client_balances = {}
            /\ local'[p].trace = <<<<"are_balances_empty", "Ok">>>> )
          => /\ pc'[p] = "done"
             /\ local'[p].result = Err("BalancesEmpty", <<>>)
             /\ UNCHANGED <<clients, client_balances, id_counter, balances_lock>>
      ]_vars

C9_Witness ==
    \E p \in Procs :
        /\ SbDone(p)
        /\ local[p].result = Err("BalancesEmpty", <<>>)
        /\ local[p].trace = <<<<"are_balances_empty", "Ok">>>>
        /\ DOMAIN client_balances = {}

\* the terminal states of the close-out workflow, read off the calls made and the answer
Terminal(p, k) ==
    LET t == local[p].trace
        r == local[p].result
        e == <<"are_balances_empty", "Ok">>
        z == <<"reset_all_balances_to_zero", "Ok">>
    IN CASE k = "Empty" -> t = <<e>> /\ r = Err("BalancesEmpty", <<>>)
         [] k = "Exported" -> t = <<e, z, <<"export_balances", "Ok">>>> /\ r.kind = "Ok"
         [] k = "RolledBack" ->
                t = <<e, z, <<"export_balances", "Err">>, <<"merge_old_balances", "Ok">>>> /\ IsUnknown(r)
         [] k = "Lost" ->
                t = <<e, z, <<"export_balances", "Err">>, <<"merge_old_balances", "Err">>>> /\ IsUnknown(r)
         [] k = "CheckFailed" -> t = <<<<"are_balances_empty", "Err">>>> /\ IsUnknown(r)
         [] k = "ResetFailed" -> t = <<e, <<"reset_all_balances_to_zero", "Err">>>> /\ IsUnknown(r)

\* C10 as stated: every returned store_balances is in exactly one of Exported,
\* RolledBack, Lost, Empty.
C10_FourTerminalStates ==
    \A p \in Procs :
        SbDone(p) =>
            Cardinality({k \in {"Exported", "RolledBack", "Lost", "Empty"} : Terminal(p, k)}) = 1

\* C10 amended: every store_balances call whose port calls return eventually returns,
\* in exactly one of Exported, RolledBack, Lost, Empty, or with Unknown straight after
\* a failed emptiness check or a failed reset.
C10_Terminates ==
    /\ \A p \in Procs : (pc[p] \in SbPcs) ~> SbDone(p)
    /\ [](\A p \in Procs :
            SbDone(p) =>
                Cardinality({k \in {"Exported", "RolledBack", "Lost", "Empty",
                                    "CheckFailed", "ResetFailed"} : Terminal(p, k)}) = 1)

C10_Witness ==
    \E p \in Procs : SbDone(p) /\ Terminal(p, "ResetFailed") /\ ~AllZero

\* the merge step of request p has just answered Ok
MergeStepOk(p) ==
    /\ pc[p] = "sb_merge"
    /\ pc'[p] = "done"
    /\ local'[p].trace[Len(local'[p].trace)] = <<"merge_old_balances", "Ok">>

\* C11: merge_old_balances on any list of old balances succeeds, creates no ledger
\* entry (an old balance whose client has no entry in the ledger is skipped) and adds
\* to every existing entry the old balances listed for it.
C11_MergeSkipsMissing ==
    [][\A p \in Procs :
          MergeStepOk(p) =>
              LET old == local[p].old_balance_clients
              IN /\ DOMAIN client_balances' = DOMAIN client_balances
                 /\ \A c \in DOMAIN client_balances :
                       /\ client_balances'[c].id = c
                       /\ client_balances'[c].balance = client_balances[c].balance + SumOld(old, c)]_vars

C11_Witness ==
    \E p \in Procs :
        LET old == local[p].old_balance_clients
        IN /\ SbDone(p) /\ Did(p, "merge_old_balances", "Ok")
           /\ \E i \in DOMAIN old : old[i].id \notin DOMAIN client_balances
           /\ \E j \in DOMAIN old : /\ old[j].id \in DOMAIN client_balances
                                   /\ old[j].balance # 0
                                   /\ client_balances[old[j].id].balance = 2

\* create_client has returned to its caller, who still holds the answer
CcDone(p) == pc[p] = "done" /\ local[p].op = "create_client"

\* the call went past the lookup and asked the repository to create the client
ReachedRepository(p) == local[p].client # Unit

IsDuplicate(r, document) == r = ErrWith("Duplicate", [document |-> document])

\* C12: no two clients of the ledger share a document, in every reachable state; a
\* create_client that the repository rejects with Duplicate has added no client, and
\* of two create_client calls with one document that was not in the ledger when either
\* began, that both reached the repository and whose balance initialisation did not
\* fail, exactly one returned its client and the other the repository's Duplicate.
C12_DocumentUnique ==
    /\ \A c1, c2 \in DOMAIN clients : clients[c1].document = clients[c2].document => c1 = c2
    /\ \A p \in Procs :
          (CcDone(p) /\ ReachedRepository(p) /\ IsDuplicate(local[p].result, local[p].req.document))
              => local[p].client.id \notin DOMAIN clients
    /\ \A p, q \in Procs :
          (/\ p # q /\ CcDone(p) /\ CcDone(q)
           /\ local[p].req.document = local[q].req.document
           /\ ~hist[p].doc_in_ledger /\ ~hist[q].doc_in_ledger
           /\ ReachedRepository(p) /\ ReachedRepository(q)
           /\ local[p].e = NoResult /\ local[q].e = NoResult)
              => \/ /\ local[p].result = Ok(local[p].client)
                    /\ IsDuplicate(local[q].result, local[q].req.document)
                 \/ /\ local[q].result = Ok(local[q].client)
                    /\ IsDuplicate(local[p].result, local[p].req.document)

C12_Witness ==
    \E p, q \in Procs :
        /\ p # q /\ CcDone(p) /\ CcDone(q)
        /\ local[p].req.document = local[q].req.document
        /\ ~hist[p].doc_in_ledger /\ ~hist[q].doc_in_ledger
        /\ local[p].lookup.err = "NotFoundByDocument"
        /\ local[q].lookup.err = "NotFoundByDocument"
        /\ local[p].result = Ok(local[p].client)
        /\ local[p].client.id \in DOMAIN clients
        /\ ReachedRepository(q)
        /\ IsDuplicate(local[q].result, local[q].req.document)

\* C13 as stated: every client of the ledger has a balance, in every reachable state,
\* the states inside create_client included (a map holds at most one entry per id).
C13_ClientHasBalance ==
    \A c \in DOMAIN clients : c \in DOMAIN client_balances

\* the compensating delete of a create_client has removed its client
Compensated(p) ==
    /\ CcDone(p) /\ local[p].e # NoResult
    /\ local[p].result = Ok(local[p].client)
    /\ local[p].client.id \notin DOMAIN clients

\* C14: every balance entry is keyed by the id of a client of the ledger, in every
\* reachable state, whatever the interleaving of create_client (with its compensating
\* delete), credit, debit and store_balances.
C14_BalanceKeyedByClient ==
    /\ DOMAIN client_balances \subseteq DOMAIN clients
    /\ \A c \in DOMAIN client_balances : client_balances[c].id = c

C14_Witness ==
    /\ \E p \in Procs : Compensated(p)
    /\ DOMAIN client_balances # {}
    /\ \E q \in Procs : local[q].op = "store_balances" /\ Did(q, "reset_all_balances_to_zero", "Ok")

\* C15: a create_client that begins after a create_client with the same document has
\* succeeded (its client is in the ledger with its balance) fails with Duplicate
\* carrying that document, and adds no client and no balance.
C15_SecondCreateIsDuplicate ==
    \A p \in Procs :
        (CcDone(p) /\ hist[p].doc_created)
            => /\ IsDuplicate(local[p].result, local[p].req.document)
               /\ Cardinality(HoldersOf(local[p].req.document)) = 1
               /\ ReachedRepository(p) =>
                     local[p].client.id \notin (DOMAIN clients \cup DOMAIN client_balances)

C15_Witness ==
    \E p, q \in Procs :
        /\ p # q
        /\ CcDone(q) /\ local[q].result = Ok(local[q].client)
        /\ CcDone(p) /\ hist[p].doc_created
        /\ local[p].req.document = local[q].req.document
        /\ local[p].lookup = Ok(local[q].client)
        /\ IsDuplicate(local[p].result, local[p].req.document)
        /\ DOMAIN clients = {local[q].client.id}
        /\ DOMAIN client_balances = {local[q].client.id}

\* request p returns from create_client in this step
CcReturns(p) == pc[p] # "done" /\ pc'[p] = "done" /\ local'[p].op = "create_client"

\* C16 as stated: whenever create_client returns a client, whatever the repository
\* calls inside it answered, that client is in the ledger with its balance: a
\* get_balance_by_client_id made right then returns balance 0.
C16_ReturnedClientHasBalance ==
    [][\A p \in Procs :
          (CcReturns(p) /\ local'[p].result.kind = "Ok")
              => LET id == local'[p].result.value.id
                 IN /\ id \in DOMAIN clients'
                    /\ id \in DOMAIN client_balances'
                    /\ client_balances'[id] = Balance_new(id, 0)]_vars

\* init_client_balance of this create_client has failed
InitFailed(p) == local[p].op = "create_client" /\ local[p].e # NoResult

\* C17: after a failed balance initialisation create_client goes on to delete the
\* client it has just created and makes no balance for it; when it has returned, the
\* client is no longer in the ledger, or the delete failed and create_client returned
\* the delete's error.
C17_FailedInitDeletesClient ==
    \A p \in Procs :
        InitFailed(p) =>
            /\ pc[p] \in {"cc_delete", "done"}
            /\ local[p].client.id \notin DOMAIN client_balances
            /\ pc[p] = "cc_delete" => local[p].client.id \in DOMAIN clients
            /\ pc[p] = "done" =>
                  IF local[p].client.id \in DOMAIN clients
                  THEN local[p].result = FaultDelete
                  ELSE local[p].result # FaultDelete

C17_Witness ==
    \E p, q \in Procs :
        /\ p # q
        /\ Compensated(q)
        /\ CcDone(p) /\ InitFailed(p)
        /\ local[p].client.id \in DOMAIN clients
        /\ local[p].result = FaultDelete

\* C18 as stated: in create_client only a not-found answer of the lookup counts as
\* "no conflict"; a found client gives Duplicate, any other error of the lookup is
\* returned as it is, and in both cases the repository's create is not invoked.
C18_OnlyNotFoundIsNoConflict ==
    \A p \in Procs :
        (/\ local[p].op = "create_client"
         /\ local[p].lookup # NoResult
         /\ local[p].lookup.err # "NotFoundByDocument")
            => /\ pc[p] = "done"
               /\ ~ReachedRepository(p)
               /\ local[p].lookup.kind = "Ok" => IsDuplicate(local[p].result, local[p].req.document)
               /\ local[p].lookup.kind = "Err" => local[p].result = local[p].lookup

SameFields(client, req) ==
    /\ client.name = req.name
    /\ client.birth_date = req.birth_date
    /\ client.document = req.document
    /\ client.country = req.country

\* C19: a create_client with a valid request whose document was not in the ledger when
\* the call began, with no other request changing the clients meanwhile and no failure
\* of init_client_balance, succeeds; the returned client's four fields equal the
\* inputs, and get_client for the returned id returns a client with the same fields.
C19_CreateReturnsInputs ==
    \A p \in Procs :
        (CcDone(p) /\ ~hist[p].doc_in_ledger /\ Quiet(p) /\ ~InitFailed(p))
            => /\ local[p].result.kind = "Ok"
               /\ SameFields(local[p].result.value, local[p].req)
               /\ get_client(local[p].result.value.id).kind = "Ok"
               /\ SameFields(get_client(local[p].result.value.id).value, local[p].req)

C19_Witness ==
    \E p, q \in Procs :
        /\ p # q
        /\ CcDone(p) /\ ~hist[p].doc_in_ledger /\ Quiet(p) /\ ~InitFailed(p)
        /\ local[p].result.kind = "Ok"
        /\ local[p].result.value.id = 1
        /\ pc[q] = "done" /\ local[q].op = "get_client_by_id"
        /\ local[q].result = Ok(local[p].result.value)
        /\ SameFields(local[q].result.value, local[p].req)

NotFoundById(client_id) == ErrWith("NotFoundById", [id_document |-> client_id])

\* request p takes the existence check of its method in this step
ChecksExistence(p) == pc[p] \in {"tx_exists", "gb_exists", "gc_exists"} /\ pc'[p] # pc[p]

\* C20: credit_balance, debit_balance, get_balance_by_client_id and get_client_by_id
\* given an id that no client has return NotFoundById carrying that id straight from
\* the existence check: the repository's update or read is not invoked and the ledger
\* is unchanged.
C20_UnknownIdRejected ==
    [][\A p \in Procs :
          (ChecksExistence(p) /\ local[p].req.client_id \notin DOMAIN clients)
              => /\ pc'[p] = "done"
                 /\ local'[p].result = NotFoundById(local[p].req.client_id)
                 /\ UNCHANGED <<clients, client_balances, id_counter>>]_vars

C20_Witness ==
    \E p, q \in Procs :
        /\ pc[p] = "done" /\ local[p].op \in {"credit_balance", "debit_balance"}
        /\ local[p].req.client_id \notin DOMAIN clients
        /\ local[p].result = NotFoundById(local[p].req.client_id)
        /\ pc[q] = "done" /\ local[q].op \in {"get_balance_by_client_id", "get_client_by_id"}
        /\ local[q].req.client_id \notin DOMAIN clients
        /\ local[q].result = NotFoundById(local[q].req.client_id)
        /\ DOMAIN clients # {} /\ DOMAIN client_balances = DOMAIN clients

\* credit_balance or debit_balance has returned to its caller, who still holds the answer
TxDone(p) == pc[p] = "done" /\ local[p].op \in TxOps

\* request p stores the new balance and returns in this step
TxWrites(p) == pc[p] = "tx_write" /\ pc'[p] = "done"

\* C21: an accepted credit (a > 0) or debit (a < 0) on a client with a balance stores
\* the balance it found plus a, changes no other entry, and returns the Balance that a
\* get_balance_by_client_id made right then returns; step after step the balance is
\* therefore the sum of the amounts applied to it.
C21_UpdateAddsAmount ==
    [][\A p \in Procs :
          TxWrites(p) =>
              LET c == local[p].req.client_id
                  a == local[p].req.amount
              IN /\ local[p].op = "credit_balance" => a > 0
                 /\ local[p].op = "debit_balance" => a < 0
                 /\ DOMAIN client_balances' = DOMAIN client_balances
                 /\ client_balances'[c].balance = client_balances[c].balance + a
                 /\ client_balances'[c].id = c
                 /\ \A x \in DOMAIN client_balances \ {c} : client_balances'[x] = client_balances[x]
                 /\ local'[p].result = Ok(client_balances'[c])]_vars

C21_Witness ==
    \E p, q \in Procs :
        /\ TxDone(p) /\ local[p].op = "credit_balance"
        /\ TxDone(q) /\ local[q].op = "debit_balance"
        /\ local[p].req.client_id = local[q].req.client_id
        /\ local[p].result = Ok(Balance_new(local[p].req.client_id, 1))
        /\ local[q].result = Ok(Balance_new(local[q].req.client_id, 0))
        /\ get_balance_by_client_id(local[q].req.client_id) = local[q].result

\* C22: updates of one client are serialized: when a credit or debit stores its
\* balance, the balance is what it was when the call began plus the call's own amount
\* plus the amounts of the credits and debits of that client stored meanwhile (no reset
\* or merge in between), so no update is lost in any interleaving.
C22_NoLostUpdate ==
    [][\A p \in Procs :
          LET c == local[p].req.client_id
          IN (/\ TxWrites(p)
              /\ c \in DOMAIN hist[p].pre_call
              /\ hist[p].during \cap {"reset", "merge"} = {})
                 => client_balances'[c].balance =
                        hist[p].pre_call[c].balance + local[p].req.amount + hist[p].applied[c]]_vars

C22_Witness ==
    \E p, q \in Procs :
        LET c == local[p].req.client_id
        IN /\ p # q /\ TxDone(p) /\ TxDone(q)
           /\ local[q].req.client_id = c
           /\ c \in DOMAIN hist[p].pre_call
           /\ hist[q].pre_call = hist[p].pre_call
           /\ local[p].req.amount = local[q].req.amount
           /\ hist[p].applied[c] = local[q].req.amount
           /\ client_balances[c].balance =
                  hist[p].pre_call[c].balance + local[p].req.amount + local[q].req.amount

\* positions inside a repository call that holds the client_balances mutex
InsideLockedCall == {"sb_resetting", "tx_write"}

\* positions of credit_balance, debit_balance and get_balance_by_client_id in progress
TxReadPcs == {"tx_exists", "tx_update", "tx_write", "gb_exists", "gb_read"}

\* C23: a request holds the client_balances mutex only inside one repository call, never
\* while its service method is suspended between two calls; in particular, while a
\* store_balances awaits the exporter, another request can start a credit, a debit or a
\* balance read, and every step of one in progress can be taken at once.
C23_NoLockAcrossAwait ==
    /\ \A p \in Procs : balances_lock = p => pc[p] \in InsideLockedCall
    /\ \A p, q \in Procs :
          (p # q /\ pc[p] = "sb_export") =>
              /\ pc[q] \in TxReadPcs => ENABLED Step(q)
              /\ (pc[q] \in {"idle", "done"} /\ ops_started < MaxOps) =>
                    /\ ENABLED StartCreditBalance(q)
                    /\ ENABLED StartDebitBalance(q)
                    /\ ENABLED StartGetBalance(q)

C23_Witness ==
    \E p, q \in Procs :
        /\ p # q /\ pc[p] = "sb_export"
        /\ hist[p].at_reset # EmptyMap
        /\ TxDone(q) /\ local[q].result.kind = "Ok"
        /\ hist[q].pre_call # EmptyMap
        /\ \A c \in DOMAIN hist[q].pre_call : hist[q].pre_call[c].balance = 0
        /\ ~AllZero
        /\ "update" \in hist[p].during

\* request p performs the compensating delete of client c in this step
CompensatingDelete(p, c) ==
    /\ pc[p] = "cc_delete" /\ pc'[p] = "done"
    /\ local[p].op = "create_client"
    /\ local[p].e.kind = "Err"
    /\ local[p].client.id = c

\* C24: a client of the ledger is stored under its own id, no step of any operation
\* changes one of its fields, and the only step that removes it is the compensating
\* delete of the create_client that created it and whose balance initialisation failed.
C24_ClientNeverMutated ==
    /\ [](\A c \in DOMAIN clients : clients[c].id = c)
    /\ [][\A c \in DOMAIN clients :
             IF c \in DOMAIN clients'
             THEN clients'[c] = clients[c]
             ELSE \E p \in Procs : CompensatingDelete(p, c)]_vars

C24_Witness ==
    \E p, q \in Procs :
        /\ Compensated(p)
        /\ SbDone(q) /\ Did(q, "reset_all_balances_to_zero", "Ok")
        /\ \E c \in DOMAIN clients :
              /\ c < local[p].client.id
              /\ SameFields(clients[c], CreateClientRequest_new("Ana", "1990-01-01", "d1", "AR"))

\* the constructor whose answer request p holds
Constructed(p, op) == pc[p] = "done" /\ local[p].op = op

\* C25: CreditTransactionRequest::new answers ZeroAmount to amount 0, NegativeAmount to
\* a negative amount, and otherwise a request that holds the client id and the amount as
\* given; every constructed credit request has a strictly positive amount.
C25_CreditRequestPositive ==
    \A p \in Procs :
        Constructed(p, "CreditTransactionRequest::new") =>
            LET a == local[p].req.amount
                r == local[p].result
            IN /\ a = 0 => r = Err("ZeroAmount", <<>>)
               /\ a < 0 => r = Err("NegativeAmount", <<>>)
               /\ a > 0 => r = Ok([client_id |-> local[p].req.client_id, amount |-> a])
               /\ r.kind = "Ok" => r.value.amount > 0

C25_Witness ==
    \E p, q \in Procs :
        /\ Constructed(p, "CreditTransactionRequest::new")
        /\ Constructed(q, "CreditTransactionRequest::new")
        /\ local[p].req.amount = 0 /\ local[p].result.err = "ZeroAmount"
        /\ local[q].req.amount = MaxAmount /\ local[q].result.kind = "Ok"

\* C26: DebitTransactionRequest::new answers ZeroAmount to amount 0, PositiveAmount to a
\* positive amount, and otherwise a request that holds the client id and the amount as
\* given, the negative delta to apply; every constructed debit request has a strictly
\* negative amount.
C26_DebitRequestNegative ==
    \A p \in Procs :
        Constructed(p, "DebitTransactionRequest::new") =>
            LET a == local[p].req.amount
                r == local[p].result
            IN /\ a = 0 => r = Err("ZeroAmount", <<>>)
               /\ a > 0 => r = Err("PositiveAmount", <<>>)
               /\ a < 0 => r = Ok([client_id |-> local[p].req.client_id, amount |-> a])
               /\ r.kind = "Ok" => r.value.amount < 0

C26_Witness ==
    \E p, q \in Procs :
        /\ Constructed(p, "DebitTransactionRequest::new")
        /\ Constructed(q, "DebitTransactionRequest::new")
        /\ local[p].req.amount = 1 /\ local[p].result.err = "PositiveAmount"
        /\ local[q].req.amount = 0 - MaxAmount /\ local[q].result.kind = "Ok"

ValueConstructors ==
    {"ClientName::new", "Document::new", "Country::new", "BirthDate::new", "ClientId::new"}

\* the field a value-object constructor names in its errors
FieldOf(op) ==
    CASE op = "ClientName::new" -> "name"
      [] op = "Document::new" -> "document"
      [] op = "Country::new" -> "country"
      [] op = "BirthDate::new" -> "birth_date"
      [] op = "ClientId::new" -> "client_id"

\* the maximal length of the fields that have one
MaxLengthOf(op) ==
    CASE op = "ClientName::new" -> MAX_LENGTH_NAME
      [] op = "Document::new" -> MAX_LENGTH_DOCUMENT
      [] op = "Country::new" -> MAX_LENGTH_COUNTRY

\* C27: every value-object constructor first trims surrounding whitespace; an input that
\* is then empty is rejected with FieldEmpty, a name, document or country longer than
\* its maximum with FieldMaxLength carrying the maximum, and a wrongly shaped date or a
\* non-numeric client id with FieldInvalid carrying the value; what is accepted is the
\* trimmed input.
C27_ValueObjectsValidate ==
    \A p \in Procs :
        (pc[p] = "done" /\ local[p].op \in ValueConstructors) =>
            LET op == local[p].op
                t == Trim(local[p].req.raw)
                r == local[p].result
            IN /\ t = <<>> => r = FieldEmpty(FieldOf(op))
               /\ (t # <<>> /\ op \in {"ClientName::new", "Document::new", "Country::new"}) =>
                      IF Len(t) > MaxLengthOf(op)
                      THEN r = FieldMaxLength(FieldOf(op), MaxLengthOf(op))
                      ELSE r = Ok([value |-> t])
               /\ (t # <<>> /\ op = "BirthDate::new") =>
                      IF IsDate(t) THEN r = Ok([value |-> ParseDate(t)])
                      ELSE r.kind = "Err" /\ r.err = "FieldInvalid"
               /\ (t # <<>> /\ op = "ClientId::new") =>
                      IF IsUsize(t) THEN r = Ok([value |-> ParseUsize(t)])
                      ELSE r.kind = "Err" /\ r.err = "FieldInvalid"

\* the calls request p has made to its ports, in order
CallsOf(p) == {local[p].trace[i][1] : i \in DOMAIN local[p].trace}

\* the reset of request p failed
ResetFailed(p) == SbDone(p) /\ Did(p, "reset_all_balances_to_zero", "Err")

\* C28: when the reset step fails, store_balances returns Unknown, neither the exporter
\* nor the merge is invoked, and (no other request having written meanwhile) every
\* balance keeps its pre-call value.
C28_ResetFailureStops ==
    \A p \in Procs :
        ResetFailed(p) =>
            /\ IsUnknown(local[p].result)
            /\ CallsOf(p) \cap {"export_balances", "merge_old_balances"} = {}
            /\ Quiet(p) => client_balances = hist[p].pre_call

C28_Witness ==
    \E p \in Procs :
        /\ ResetFailed(p)
        /\ Quiet(p)
        /\ \E c \in DOMAIN client_balances : client_balances[c].balance # 0
        /\ local[p].result.cause = <<"Error resetting all balances to zero">> \o ChainOf(FaultReset)

\* the methods that call the repository once after the existence check
PassThroughOps == {"credit_balance", "debit_balance", "get_balance_by_client_id", "get_client_by_id"}

\* request p returns in this step from the repository call that follows its passed
\* existence check
RepositoryAnswers(p) ==
    /\ pc[p] \in {"tx_update", "tx_write", "gb_read", "gc_read"}
    /\ pc'[p] = "done"

\* what the repository answers to the call request p is in, read off the repository's
\* state before and after the step
RepositoryAnswer(p) ==
    LET id == local[p].req.client_id
    IN CASE pc[p] = "tx_update" -> get_mut(id)
         [] pc[p] = "tx_write" -> Ok(client_balances'[id])
         [] pc[p] = "gb_read" -> get_balance_by_client_id(id)
         [] pc[p] = "gc_read" -> get_client(id)

\* C29: once the existence check has passed, the service returns the answer of the
\* repository's credit, debit, get-balance or get-client call unchanged, an error as
\* well as a success.
C29_RepositoryAnswerUnchanged ==
    [][\A p \in Procs : RepositoryAnswers(p) => local'[p].result = RepositoryAnswer(p)]_vars

\* request p has returned an answer of the repository of the given kind
Answered(p, op, kind) ==
    /\ pc[p] = "done"
    /\ local[p].op = op
    /\ local[p].e.kind = kind
    /\ local[p].result = local[p].e

C29_Witness ==
    \E p, q \in Procs :
        /\ p # q
        /\ Answered(p, "get_balance_by_client_id", "Err")
        /\ local[p].result.err = "NotFoundById"
        /\ Answered(q, "credit_balance", "Ok")

\* request p is a returned store_balances that began on a ledger with entries, all of
\* them zero, and ran without another request writing to the ledger
ZeroLedgerCall(p) ==
    /\ SbDone(p)
    /\ Quiet(p)
    /\ DOMAIN hist[p].pre_call # {}
    /\ \A c \in DOMAIN hist[p].pre_call : hist[p].pre_call[c].balance = 0

\* every port call request p made answered Ok
NoPortFailed(p) == \A i \in DOMAIN local[p].trace : local[p].trace[i][2] = "Ok"

\* C30: the ledger is empty only when it has no entries: store_balances on a ledger
\* with entries that are all zero never answers BalancesEmpty, succeeds when no port
\* fails, hands the exporter one entry of amount 0 per client and leaves every
\* balance 0.
C30_ZeroLedgerIsNotEmpty ==
    \A p \in Procs :
        ZeroLedgerCall(p) =>
            /\ local[p].result # Err("BalancesEmpty", <<>>)
            /\ NoPortFailed(p) =>
                  /\ local[p].result = Ok(Unit)
                  /\ Did(p, "export_balances", "Ok")
                  /\ Len(local[p].old_balance_clients) = Cardinality(DOMAIN hist[p].pre_call)
                  /\ Entries(local[p].old_balance_clients)
                        = {Balance_new(c, 0) : c \in DOMAIN hist[p].pre_call}
                  /\ client_balances = hist[p].pre_call

\* two successive successful close-outs: the first exported a non-zero balance, the
\* second only zeros
C30_Witness ==
    \E p, q \in Procs :
        /\ p # q
        /\ SbDone(q) /\ local[q].result = Ok(Unit)
        /\ \E i \in DOMAIN local[q].old_balance_clients : local[q].old_balance_clients[i].balance # 0
        /\ ZeroLedgerCall(p) /\ local[p].result = Ok(Unit)
        /\ local[p].old_balance_clients # <<>>
        /\ \A i \in DOMAIN local[p].old_balance_clients : local[p].old_balance_clients[i].balance = 0

\* the port calls of a store_balances execution come in the order of the method: each
\* call is made once, and only after the call before it answered as the method requires
OrderedTrace(t) ==
    /\ Len(t) <= 4
    /\ Len(t) >= 1 => t[1][1] = "are_balances_empty"
    /\ Len(t) >= 2 => t[2][1] = "reset_all_balances_to_zero" /\ t[1][2] = "Ok"
    /\ Len(t) >= 3 => t[3][1] = "export_balances" /\ t[2][2] = "Ok"
    /\ Len(t) >= 4 => t[4][1] = "merge_old_balances" /\ t[3][2] = "Err"

\* the list of old balances the reset of request p returned
Snapshot(p) == local[p].old_balance_clients

\* C31: within one store_balances execution the emptiness check comes first; the reset
\* is called at most once and only on a ledger reported non-empty; the exporter is
\* called at most once, only after the reset succeeded, with the snapshot the reset
\* returned; the merge is called at most once, only after the exporter failed, with
\* that same snapshot.
C31_CallsOrdered ==
    [][\A p \in Procs :
          /\ local'[p].op = "store_balances" => OrderedTrace(local'[p].trace)
          /\ (pc[p] = "sb_empty" /\ pc'[p] = "sb_reset") => DOMAIN client_balances # {}
          /\ pc[p] \in {"sb_export", "sb_merge"} => Snapshot(p)' = Snapshot(p)
          /\ (pc[p] = "sb_export" /\ pc'[p] # "sb_export" /\ Snapshot(p) = <<>>) =>
                local'[p].trace[3] = <<"export_balances", "Err">>
          /\ ( /\ pc[p] = "sb_merge" /\ pc'[p] = "done"
               /\ local'[p].trace[4] = <<"merge_old_balances", "Ok">> ) =>
                client_balances' = merge_old_balances(client_balances, Snapshot(p))
      ]_vars

C31_Witness ==
    \E p \in Procs :
        /\ SbDone(p)
        /\ Len(local[p].trace) = 4
        /\ local[p].trace[4] = <<"merge_old_balances", "Ok">>
        /\ \E i \in DOMAIN Snapshot(p) : Snapshot(p)[i].balance # 0

\* no store_balances execution is between its call and its return
NoCloseOutInFlight == \A p \in Procs : pc[p] \notin SbPcs

\* C32: in every state where no store_balances execution is in flight and no merge has
\* failed, for every client the current balance plus the sum of the client's amounts
\* in the snapshots whose export succeeded equals the sum of the credit and debit
\* amounts applied to the client, whatever the interleaving.
C32_BalanceConserved ==
    (NoCloseOutInFlight /\ ~audit.merge_failed) =>
        \A c \in Ids :
            (IF c \in DOMAIN client_balances THEN client_balances[c].balance ELSE 0)
                + audit.exported[c] = audit.applied[c]

\* two overlapping close-outs have returned: one exported a non-zero balance, the
\* other reset the ledger meanwhile and rolled its snapshot back
C32_Witness ==
    \E p, q \in Procs, c \in Ids :
        /\ p # q
        /\ NoCloseOutInFlight /\ ~audit.merge_failed
        /\ SbDone(p) /\ Did(p, "export_balances", "Ok")
        /\ SbDone(q) /\ Did(q, "merge_old_balances", "Ok")
        /\ {"reset", "merge"} \cap hist[p].during # {}
        /\ audit.exported[c] # 0

\* the answer of the exporter to request p, as the service holds it: with the context
\* on top of the exporter's own error
ExporterSaid(p, err) ==
    /\ Did(p, "export_balances", "Err")
    /\ local[p].e.cause = <<"Error exporting balances", err>>

\* C33: store_balances returns BalancesEmpty only when its emptiness check reported an
\* empty ledger, and then nothing was reset, exported or merged; an error of the
\* exporter, BalancesEmpty included, is returned by store_balances as Unknown.
C33_BalancesEmptyOnlyFromCheck ==
    \A p \in Procs :
        SbDone(p) =>
            /\ local[p].result = Err("BalancesEmpty", <<>>) =>
                  /\ local[p].trace = <<<<"are_balances_empty", "Ok">>>>
                  /\ hist[p].pre_call = EmptyMap
                  /\ Quiet(p) => client_balances = EmptyMap
            /\ Did(p, "export_balances", "Err") => IsUnknown(local[p].result)

C33_Witness ==
    \E p \in Procs :
        /\ SbDone(p)
        /\ ExporterSaid(p, "BalancesEmpty")
        /\ Did(p, "merge_old_balances", "Ok")
        /\ IsUnknown(local[p].result)

\* request p has reached the export step of store_balances
AtExport(p) ==
    /\ local[p].op = "store_balances"
    /\ pc[p] = "sb_export" \/ \E i \in DOMAIN local[p].trace : local[p].trace[i][1] = "export_balances"

\* C34: with the in-memory repository the exporter is never handed an empty snapshot:
\* whenever store_balances reaches the export step the snapshot has at least one entry,
\* whatever ran between the emptiness check and the reset.
C34_SnapshotNeverEmpty ==
    \A p \in Procs : AtExport(p) => Snapshot(p) # <<>>

\* a client was created between the call and the reset, and the snapshot holds it
C34_Witness ==
    \E p \in Procs :
        /\ AtExport(p)
        /\ "client" \in hist[p].during
        /\ Len(Snapshot(p)) > Cardinality(DOMAIN hist[p].pre_call)
        /\ hist[p].pre_call # EmptyMap

\* request p, inside store_balances, takes this step
CloseOutStep(p) ==
    /\ pc[p] \in SbPcs
    /\ <<pc[p], local[p]>>' # <<pc[p], local[p]>>

\* C35: store_balances, whatever its outcome, never adds or removes a ledger entry or a
\* client record: no step of it changes the set of client ids that have a balance or
\* the clients map; only balance amounts change.
C35_CloseOutKeepsEntries ==
    [][\A p \in Procs :
          CloseOutStep(p) =>
              /\ DOMAIN client_balances' = DOMAIN client_balances
              /\ \A c \in DOMAIN client_balances : client_balances'[c].id = client_balances[c].id
              /\ clients' = clients
      ]_vars

\* a compensation has run on a ledger with clients, with a snapshot that names a client
\* without entry and has changed an amount
C35_Witness ==
    \E p \in Procs :
        /\ SbDone(p)
        /\ Did(p, "merge_old_balances", "Ok")
        /\ clients # EmptyMap
        /\ \E i \in DOMAIN Snapshot(p) : Snapshot(p)[i].id \notin DOMAIN client_balances
        /\ \E c \in DOMAIN client_balances : client_balances[c] # hist[p].pre_call[c]

\* request p, inside credit_balance or debit_balance, takes this step
TransactionStep(p) ==
    /\ local[p].op \in TxOps
    /\ pc[p] \in {"tx_exists", "tx_update", "tx_write"}
    /\ <<pc[p], local[p]>>' # <<pc[p], local[p]>>

\* C36: a credit_balance or debit_balance for client X changes only the amount of X's
\* balance: the balance of every other client, the set of ledger entries and every
\* client record are unchanged by each of its steps.
C36_TransactionTouchesOneBalance ==
    [][\A p \in Procs :
          TransactionStep(p) =>
              /\ DOMAIN client_balances' = DOMAIN client_balances
              /\ \A c \in DOMAIN client_balances :
                    /\ client_balances'[c].id = client_balances[c].id
                    /\ c # local[p].req.client_id => client_balances'[c] = client_balances[c]
              /\ clients' = clients
      ]_vars

\* a credit or debit has been stored for one client while another client has a balance
C36_Witness ==
    \E p \in Procs, c \in DOMAIN client_balances :
        /\ TxDone(p)
        /\ local[p].result.kind = "Ok"
        /\ c # local[p].req.client_id
        /\ client_balances[local[p].req.client_id].balance # client_balances[c].balance

\* request p takes its client id from the counter in this step
AssignsId(p) == pc[p] = "cc_create" /\ pc'[p] = "cc_insert"

\* C37: the client ids the in-memory repository assigns are pairwise distinct over the
\* whole run: each assigned id is the counter's value, the counter then moves past it
\* and never goes back, so an id taken by a create that was rejected as Duplicate or
\* undone by the compensating delete is not assigned again; two create_client calls
\* never hold or return the same id, and every client of the ledger is stored under
\* the id it was assigned.
C37_ClientIdsDistinct ==
    /\ [](/\ \A p, q \in Procs :
               (p # q /\ ReachedRepository(p) /\ ReachedRepository(q))
                   => local[p].client.id # local[q].client.id
          /\ \A p \in Procs :
               (CcDone(p) /\ local[p].result.kind = "Ok") => local[p].result.value.id = local[p].client.id
          /\ \A c \in DOMAIN clients : clients[c].id = c /\ c < id_counter)
    /\ [][/\ id_counter' >= id_counter
          /\ \A p \in Procs :
               AssignsId(p) => /\ local'[p].client.id >= id_counter
                               /\ local'[p].client.id < id_counter'
                               /\ local'[p].client.id \notin DOMAIN clients
      ]_vars

\* the first id was consumed by a create that did not leave a client, and a later
\* create got the next id
C37_Witness ==
    \E p, q \in Procs :
        /\ p # q
        /\ CcDone(p) /\ ReachedRepository(p) /\ local[p].client.id = 0
        /\ 0 \notin DOMAIN clients
        /\ CcDone(q) /\ local[q].result.kind = "Ok" /\ local[q].result.value.id = 1
        /\ 1 \in DOMAIN clients

\* the positions whose step runs under the clients mutex
ClientsMutexPcs ==
    {"cc_lookup", "cc_insert", "cc_init_exists", "cc_delete", "tx_exists", "gb_exists",
     "gc_exists", "gc_read"}

\* the positions at which a request is inside a repository call that holds the
\* client_balances mutex
BalancesMutexPcs == {"sb_resetting", "tx_write"}

\* request p is between its call and its return
InProgress(p) == pc[p] \notin {"idle", "done"}

\* C38: the in-memory repository never deadlocks: no repository operation takes one of
\* the two mutexes while holding the other (the client_balances mutex is held only
\* inside reset_all_balances_to_zero and update_balance, which do not touch clients, and
\* a step under the clients mutex is taken without the client_balances mutex and leaves
\* it alone), and under fair scheduling every service operation in progress completes.
C38_NoDeadlock ==
    /\ \A p \in Procs : InProgress(p) ~> (pc[p] = "done")
    /\ [](\A p \in Procs : balances_lock = p => pc[p] \in BalancesMutexPcs)
    /\ [][\A p \in Procs :
            (pc[p] \in ClientsMutexPcs /\ <<pc[p], local[p]>>' # <<pc[p], local[p]>>)
                => balances_lock # p /\ balances_lock' = balances_lock
        ]_vars

\* a credit waits for the client_balances mutex that a reset holds, while a
\* close-out is in progress
C38_Witness ==
    \E p, q \in Procs :
        /\ pc[p] = "tx_update"
        /\ pc[q] = "sb_resetting"
        /\ balances_lock = q
        /\ ~ENABLED UpdateBalance(p)

\* request p calls the exporter in this step
ExportStep(p) == pc[p] = "sb_export" /\ pc'[p] # "sb_export"

\* C39: every export_balances call with a non-empty list takes a counter value that is
\* strictly greater than the value the exporter started with and greater than the
\* counter before the call, hence different from the value of every other call on the
\* same exporter, concurrent calls included; a call with an empty list fails with
\* BalancesEmpty and takes no counter value.
C39_ExportCounterFresh ==
    /\ [](/\ \A p \in Procs : \A n \in local[p].counter :
                n > audit.last_file_counter /\ n <= counter
          /\ \A p, q \in Procs : p # q => local[p].counter \cap local[q].counter = {})
    /\ [][/\ counter' >= counter
          /\ \A p \in Procs :
                ExportStep(p) =>
                    IF Snapshot(p) = <<>>
                    THEN /\ local'[p].counter = {}
                         /\ counter' = counter
                         /\ local'[p].e.cause = <<"Error exporting balances", "BalancesEmpty">>
                    ELSE /\ local'[p].counter # {}
                         /\ \A n \in local'[p].counter : n > counter /\ n <= counter'
      ]_vars

\* two calls on an exporter that started from a directory with files have taken two
\* different values
C39_Witness ==
    \E p, q \in Procs :
        /\ p # q
        /\ audit.last_file_counter = MaxCounter
        /\ local[p].counter = {MaxCounter + 1}
        /\ local[q].counter = {MaxCounter + 2}
        /\ Did(p, "export_balances", "Ok")

====
